---------------------------- MODULE Spec2Model ----------------------------
(***************************************************************************)
(* ByteBuster: the stream framer, the hex codec, the label classifier and  *)
(* the suspect evaluator, with the pump of ByteBusterApp::update that      *)
(* feeds them.                                                             *)
(*                                                                         *)
(* Texts (Rust String / &str) are sequences of one-character strings,      *)
(* bytes are the integers 0..255, Vec<u8> is a sequence of bytes.  Rust   *)
(* indices are 0-based and are kept 0-based here; only SubSeq and s[i]     *)
(* convert to the 1-based sequences of TLA+.                               *)
(***************************************************************************)
EXTENDS Integers, Sequences, FiniteSets, TLC

(***************************************************************************)
(* Bounds of the model.                                                    *)
(***************************************************************************)
\* capacity of the message history (max_messages, 200 in the program), scaled
MaxMessages == 2
\* capacity of the reader channel (1024 in the program), scaled
ChannelCap == 2
\* bytes the peer sends between two Clears in the framing specification
MaxBytes == 4
\* bytes the peer sends between two Clears in the application specification
MaxAppBytes == 11
\* longest chunk one read returns in the framing specification
MaxChunk == 2
\* longest delimiter, in bytes, in the framing specification
MaxDelim == 2
\* longest text typed into the send field in the hex specification
MaxText == 3

\* bytes the peer sends between two Clears in the alert specification
MaxAlertBytes == 15
\* longest byte sequence entered as hex in the round-trip specification
MaxRound == 3
\* the longest range text the operator enters
MaxRangeText == 4
\* the longest chunk of a burst, and the bytes the peer sends in bursts
MaxBurst == 4
MaxBurstBytes == 7
\* the bytes the peer sends while the threads are watched
MaxThreadBytes == 11

\* most rules in a rule list in the rule specifications
MaxRules == 2
\* longest message in the rule specifications
MaxMsgLen == 2

\* Option::None for an index
None == -1

(***************************************************************************)
(* Slices.                                                                 *)
(***************************************************************************)
\* s[from..to] of Rust: 0-based, `to` exclusive
Slice(s, from, to) == SubSeq(s, from + 1, to)

\* s[from..=to] of Rust: 0-based, `to` inclusive
SliceIncl(s, from, to) == SubSeq(s, from + 1, to + 1)

\* all sequences over S of length lo..hi
SeqsOf(S, lo, hi) == UNION {[1..n -> S] : n \in lo..hi}

(***************************************************************************)
(* parse_hex_bytes (state.rs) and the std functions it calls.              *)
(***************************************************************************)
\* char::is_whitespace, on the characters of the model
is_whitespace(c) == c \in {" ", "\t"}

\* str::split_whitespace: the maximal runs of non-whitespace, in order
RECURSIVE SplitFrom(_, _, _)
SplitFrom(input, cur, out) ==
    IF input = <<>>
    THEN IF cur = <<>> THEN out ELSE Append(out, cur)
    ELSE IF is_whitespace(Head(input))
         THEN SplitFrom(Tail(input), <<>>, IF cur = <<>> THEN out ELSE Append(out, cur))
         ELSE SplitFrom(Tail(input), Append(cur, Head(input)), out)

split_whitespace(input) == SplitFrom(input, <<>>, <<>>)

\* str::starts_with
starts_with(s, p) == Len(p) <= Len(s) /\ SubSeq(s, 1, Len(p)) = p

\* str::trim_start_matches: removes the prefix p as often as it repeats
RECURSIVE trim_start_matches(_, _)
trim_start_matches(s, p) ==
    IF p # <<>> /\ starts_with(s, p)
    THEN trim_start_matches(SubSeq(s, Len(p) + 1, Len(s)), p)
    ELSE s

\* char::to_digit(10): the value of a decimal digit, None for any other
\* character
to_digit10(c) ==
    CASE c = "0" -> 0  [] c = "1" -> 1  [] c = "2" -> 2  [] c = "3" -> 3
      [] c = "4" -> 4  [] c = "5" -> 5  [] c = "6" -> 6  [] c = "7" -> 7
      [] c = "8" -> 8  [] c = "9" -> 9
      [] OTHER -> None

\* to_digit(16) that does not know the letters
to_digit16_no_letters(c) == to_digit10(c)

\* char::to_digit(16): the value of a hex digit, None for any other character
to_digit16(c) ==
    CASE c = "0" -> 0  [] c = "1" -> 1  [] c = "2" -> 2  [] c = "3" -> 3
      [] c = "4" -> 4  [] c = "5" -> 5  [] c = "6" -> 6  [] c = "7" -> 7
      [] c = "8" -> 8  [] c = "9" -> 9
      [] c \in {"a", "A"} -> 10  [] c \in {"b", "B"} -> 11
      [] c \in {"c", "C"} -> 12  [] c \in {"d", "D"} -> 13
      [] c \in {"e", "E"} -> 14  [] c \in {"f", "F"} -> 15
      [] OTHER -> None

\* the digit loop of u8::from_str_radix: None on a non-digit or on overflow
RECURSIVE DigitsValue(_, _)
DigitsValue(digits, acc) ==
    IF digits = <<>> THEN acc
    ELSE LET d == to_digit16(Head(digits)) IN
         IF d = None THEN None
         ELSE IF acc * 16 + d > 255 THEN None
         ELSE DigitsValue(Tail(digits), acc * 16 + d)

\* u8::from_str_radix(src, 16): the byte, or None for Err.  An empty string, a
\* lone sign, a '-' (u8 is unsigned), a non-digit and a value above 255 are
\* errors; one leading '+' is accepted.
from_str_radix(src) ==
    IF src = <<>> THEN None
    ELSE IF Len(src) = 1 /\ Head(src) \in {"+", "-"} THEN None
    ELSE IF Head(src) = "+" THEN DigitsValue(Tail(src), 0)
    ELSE DigitsValue(src, 0)

\* Result<Vec<u8>, String>
Ok(bytes) == [ok |-> TRUE, bytes |-> bytes]
Err(token) == [ok |-> FALSE, token |-> token]

\* the for loop of parse_hex_bytes over the tokens; `?` returns the first error,
\* whose text names the token as written
RECURSIVE ParseTokens(_, _)
ParseTokens(tokens, bytes) ==
    IF tokens = <<>> THEN Ok(bytes)
    ELSE LET token == Head(tokens)
             cleaned == trim_start_matches(trim_start_matches(token, <<"0", "x">>), <<"0", "X">>)
         IN  IF cleaned = <<>> THEN ParseTokens(Tail(tokens), bytes)
             ELSE LET b == from_str_radix(cleaned) IN
                  IF b = None THEN Err(token)
                  ELSE ParseTokens(Tail(tokens), Append(bytes, b))

parse_hex_bytes(input) == ParseTokens(split_whitespace(input), <<>>)

\* Result::unwrap_or_default
unwrap_or_default(r) == IF r.ok THEN r.bytes ELSE <<>>

(***************************************************************************)
(* frame_messages (framing.rs).                                            *)
(***************************************************************************)
\* position that finds the last window equal to pat
position_last(buffer, pat) ==
    LET hits == {i \in 0..(Len(buffer) - Len(pat)) : Slice(buffer, i, i + Len(pat)) = pat}
    IN  IF hits = {} THEN None ELSE CHOOSE i \in hits : \A j \in hits : i >= j

\* buffer.windows(pat.len()).position(|w| w == pat): the index of the first
\* window equal to pat, None when there is none (pat is never empty here)
position(buffer, pat) ==
    LET hits == {i \in 0..(Len(buffer) - Len(pat)) : Slice(buffer, i, i + Len(pat)) = pat}
    IN  IF hits = {} THEN None ELSE CHOOSE i \in hits : \A j \in hits : i <= j

\* start_pos with the message taken from the front of the buffer
start_pos_from_zero(buffer, start) ==
    IF start = <<>> THEN 0 ELSE IF position(buffer, start) = None THEN None ELSE 0

\* line 6: where the start delimiter is; index 0 when it is empty
start_pos(buffer, start) ==
    IF start = <<>> THEN 0 ELSE position(buffer, start)

\* end_pos without the offset of line 16
end_pos_no_offset(buffer, after_start, end) ==
    IF end = <<>> THEN Len(buffer)
    ELSE position(Slice(buffer, after_start, Len(buffer)), end)

\* end_pos that takes an empty end delimiter to match right after the start
\* delimiter
end_pos_empty_after_start(buffer, after_start, end) ==
    IF end = <<>> THEN after_start
    ELSE LET p == position(Slice(buffer, after_start, Len(buffer)), end)
         IN  IF p = None THEN None ELSE after_start + p

\* lines 10-17: where the end delimiter is, searched from after_start on; the
\* end of the buffer when it is empty
end_pos(buffer, after_start, end) ==
    IF end = <<>> THEN Len(buffer)
    ELSE LET p == position(Slice(buffer, after_start, Len(buffer)), end)
         IN  IF p = None THEN None ELSE after_start + p

\* drain that empties the buffer
drain_all(buffer, n) == <<>>

\* line 22: buffer.drain(0..n)
drain(buffer, n) == Slice(buffer, n, Len(buffer))

\* an iteration that breaks
Break == [emit |-> FALSE]

\* FrameStep that breaks when the end delimiter comes right after the start
\* delimiter, with no payload between them
FrameStep_needs_payload(buffer, start, end) ==
    LET s == start_pos(buffer, start) IN
    IF s = None THEN Break
    ELSE
    LET after_start == s + Len(start) IN
    IF after_start > Len(buffer) THEN Break
    ELSE
    LET e == end_pos(buffer, after_start, end) IN
    IF e = None \/ e = after_start THEN Break
    ELSE
    LET msg_end == e + Len(end) IN
    IF msg_end <= Len(buffer)
    THEN [emit |-> TRUE, s |-> s, msg_end |-> msg_end]
    ELSE Break

\* lines 6-23, one iteration of the loop: either it breaks (emit = FALSE) or it
\* finds the message buffer[s..msg_end]
FrameStep(buffer, start, end) ==
    LET s == start_pos(buffer, start) IN
    IF s = None THEN Break
    ELSE
    LET after_start == s + Len(start) IN
    IF after_start > Len(buffer) THEN Break
    ELSE
    LET e == end_pos(buffer, after_start, end) IN
    IF e = None THEN Break
    ELSE
    LET msg_end == e + Len(end) IN
    IF msg_end <= Len(buffer)
    THEN [emit |-> TRUE, s |-> s, msg_end |-> msg_end]
    ELSE Break

\* FrameResult that hands the messages back last one first
FrameResult_reversed(buffer, messages, returned) ==
    [buffer |-> buffer,
     messages |-> [i \in 1..Len(messages) |-> messages[Len(messages) + 1 - i]],
     returned |-> returned]

\* what a call has done when it returns (returned), or when it is caught in its
\* loop for good (~returned)
FrameResult(buffer, messages, returned) ==
    [buffer |-> buffer, messages |-> messages, returned |-> returned]

\* lines 5-24: the loop.  One unfolding is one iteration.  The control of the
\* loop reads buffer, start and end only, and start and end never change: an
\* iteration that pushes a message and drains nothing (msg_end = 0) is followed
\* by the same iteration again, without end, so the call never returns; the
\* result then records the first of the messages it keeps pushing.
RECURSIVE FrameLoop(_, _, _, _)
FrameLoop(buffer, start, end, messages) ==
    LET step == FrameStep(buffer, start, end) IN
    IF ~step.emit THEN FrameResult(buffer, messages, TRUE)
    ELSE LET pushed == Append(messages, Slice(buffer, step.s, step.msg_end))
             drained == drain(buffer, step.msg_end)
         IN  IF step.msg_end = 0
             THEN FrameResult(drained, pushed, FALSE)
             ELSE FrameLoop(drained, start, end, pushed)

\* frame_messages without the loop: at most one message a call
frame_messages_once(buffer, start, end) ==
    LET step == FrameStep(buffer, start, end) IN
    IF ~step.emit THEN FrameResult(buffer, <<>>, TRUE)
    ELSE FrameResult(drain(buffer, step.msg_end),
                     <<Slice(buffer, step.s, step.msg_end)>>, TRUE)

\* frame_messages that, when it stops, also drops the bytes in front of a start
\* delimiter it has found no end for
frame_messages_resync(buffer, start, end) ==
    LET r == FrameLoop(buffer, start, end, <<>>)
        s == start_pos(r.buffer, start)
    IN  IF s = None THEN r ELSE [r EXCEPT !.buffer = drain(r.buffer, s)]

\* lines 3-26
frame_messages(buffer, start, end) == FrameLoop(buffer, start, end, <<>>)

\* {:02X}: a byte as two uppercase hex digits
HexDigit(n) ==
    <<"0", "1", "2", "3", "4", "5", "6", "7", "8", "9", "A", "B", "C", "D", "E", "F">>[n + 1]
Hex2(b) == <<HexDigit(b \div 16), HexDigit(b % 16)>>

\* bytes written as hex tokens with one space between them
RECURSIVE SpacedHex(_)
SpacedHex(bytes) ==
    IF bytes = <<>> THEN <<>>
    ELSE IF Len(bytes) = 1 THEN Hex2(bytes[1])
    ELSE Hex2(bytes[1]) \o <<" ">> \o SpacedHex(Tail(bytes))

(***************************************************************************)
(* parse_index_range (state.rs) and the std functions it calls.  The       *)
(* result is <<start, end>>, or NoRange for Option::None.                  *)
(***************************************************************************)
NoRange == <<>>

\* str::trim: the text without its leading and trailing whitespace
RECURSIVE trim_start(_)
trim_start(s) ==
    IF s # <<>> /\ is_whitespace(Head(s)) THEN trim_start(Tail(s)) ELSE s

RECURSIVE trim_end(_)
trim_end(s) ==
    IF s # <<>> /\ is_whitespace(s[Len(s)]) THEN trim_end(SubSeq(s, 1, Len(s) - 1)) ELSE s

trim(s) == trim_end(trim_start(s))

\* str::split_once: <<before, after>> of the first occurrence of the
\* delimiter, <<>> for None
split_once(s, delim) ==
    LET at == position(s, delim) IN
    IF at = None THEN <<>>
    ELSE <<Slice(s, 0, at), Slice(s, at + Len(delim), Len(s))>>

\* the digit loop of usize::from_str: None on a character that is no decimal
\* digit (a usize holds every number of the model)
RECURSIVE DecimalValue(_, _)
DecimalValue(digits, acc) ==
    IF digits = <<>> THEN acc
    ELSE LET d == to_digit10(Head(digits)) IN
         IF d = None THEN None
         ELSE DecimalValue(Tail(digits), acc * 10 + d)

\* str::parse::<usize>: the number, or None for Err.  An empty string, a lone
\* sign, a '-' and a non-digit are errors; one leading '+' is accepted.
parse_usize(src) ==
    IF src = <<>> THEN None
    ELSE IF Len(src) = 1 /\ Head(src) \in {"+", "-"} THEN None
    ELSE IF Head(src) = "+" THEN DecimalValue(Tail(src), 0)
    ELSE DecimalValue(src, 0)

\* parse_pair that returns the smaller number first
parse_pair_sorted(halves) ==
    LET start == parse_usize(trim(halves[1]))
        end == parse_usize(trim(halves[2]))
    IN  IF start = None \/ end = None THEN NoRange
        ELSE IF start <= end THEN <<start, end>> ELSE <<end, start>>

\* lines 191-193 and 197-199: both sides of a range, each parsed with `?`
parse_pair(halves) ==
    LET start == parse_usize(trim(halves[1]))
        end == parse_usize(trim(halves[2]))
    IN  IF start = None \/ end = None THEN NoRange ELSE <<start, end>>

\* state.rs 187-203
parse_index_range(input) ==
    LET s == trim(input) IN
    IF s = <<>> THEN NoRange
    ELSE IF split_once(s, <<"-">>) # <<>> THEN parse_pair(split_once(s, <<"-">>))
    ELSE IF parse_usize(s) # None THEN <<parse_usize(s), parse_usize(s)>>
    ELSE IF split_once(s, <<".", ".">>) # <<>> THEN parse_pair(split_once(s, <<".", ".">>))
    ELSE NoRange

\* `if start <= end { (start, end) } else { (end, start) }` of the Add and
\* Save handlers, without the swap
normalize_range_as_typed(range) == range

\* `if start <= end { (start, end) } else { (end, start) }` of the Add and
\* Save handlers
normalize_range(range) ==
    IF range[1] <= range[2] THEN range ELSE <<range[2], range[1]>>

\* {} of format!: a number in decimal
RECURSIVE FormatIndex(_)
FormatIndex(n) ==
    IF n < 10 THEN <<HexDigit(n)>> ELSE FormatIndex(n \div 10) \o <<HexDigit(n % 10)>>

\* format!("{}-{}", start_index, end_index) of the Edit handlers
format_range(start_index, end_index) ==
    FormatIndex(start_index) \o <<"-">> \o FormatIndex(end_index)

(***************************************************************************)
(* find_message_label (state.rs) and check_suspects_for_message            *)
(* (suspects.rs).  A LabelRule is [name, start_index, end_index, value], a *)
(* SuspectRule is [name, start_index, end_index, expected_kind,            *)
(* expected_value, target, severity].  Option<String> is <<>> for None and *)
(* <<name>> for Some(name).                                                *)
(***************************************************************************)
NoLabel == <<>>
SomeLabel(name) == <<name>>

\* WatchTarget
TargetAll == [kind |-> "All"]
TargetLabel(name) == [kind |-> "Label", label |-> name]

\* state.rs 224-231: the test of one rule
label_rule_matches(message, r) ==
    /\ r.start_index <= r.end_index
    /\ r.end_index < Len(message)
    /\ LET slice == SliceIncl(message, r.start_index, r.end_index)
       IN  Len(slice) = Len(r.value) /\ slice = r.value

\* find_message_label that lets the last matching rule win
RECURSIVE find_message_label_last(_, _)
find_message_label_last(message, rules) ==
    IF rules = <<>> THEN NoLabel
    ELSE LET later == find_message_label_last(message, Tail(rules)) IN
         IF later # NoLabel THEN later
         ELSE IF label_rule_matches(message, Head(rules))
              THEN SomeLabel(Head(rules).name)
              ELSE NoLabel

\* find_message_label that gives up at the first rule whose range does not
\* resolve or whose value has another length than its range
RECURSIVE find_message_label_stop(_, _)
find_message_label_stop(message, rules) ==
    IF rules = <<>> THEN NoLabel
    ELSE LET r == Head(rules) IN
         IF label_rule_matches(message, r) THEN SomeLabel(r.name)
         ELSE IF r.end_index >= Len(message)
                 \/ Len(r.value) # r.end_index - r.start_index + 1
              THEN NoLabel
              ELSE find_message_label_stop(message, Tail(rules))

\* state.rs 222-234: the first rule that matches gives the label
RECURSIVE find_message_label(_, _)
find_message_label(message, rules) ==
    IF rules = <<>> THEN NoLabel
    ELSE IF label_rule_matches(message, Head(rules))
         THEN SomeLabel(Head(rules).name)
         ELSE find_message_label(message, Tail(rules))

\* hex::encode_upper: two uppercase hex digits a byte, nothing between them
RECURSIVE encode_upper(_)
encode_upper(bytes) ==
    IF bytes = <<>> THEN <<>> ELSE Hex2(Head(bytes)) \o encode_upper(Tail(bytes))

\* the printable characters 32..126 in order (the double quote, the
\* backslash and the backtick are written by their code points)
AsciiPrintable ==
    <<" ", "!", "U+34", "#", "$", "%", "&", "'", "(", ")", "*", "+", ",", "-", ".", "/",
      "0", "1", "2", "3", "4", "5", "6", "7", "8", "9", ":", ";", "<", "=", ">", "?",
      "@", "A", "B", "C", "D", "E", "F", "G", "H", "I", "J", "K", "L", "M", "N", "O",
      "P", "Q", "R", "S", "T", "U", "V", "W", "X", "Y", "Z", "[", "U+92", "]", "^", "_",
      "U+96", "a", "b", "c", "d", "e", "f", "g", "h", "i", "j", "k", "l", "m", "n", "o",
      "p", "q", "r", "s", "t", "u", "v", "w", "x", "y", "z", "{", "|", "}", "~">>

\* String::from_utf8_lossy, byte by byte: a byte below 128 is its character
\* (a control character is written U+n), a byte that starts no UTF-8 sequence
\* is U+FFFD.  The bytes 0xC2..0xF4, which start a sequence of several bytes,
\* are in no input of this model.
lossy_char(b) ==
    IF 32 <= b /\ b <= 126 THEN AsciiPrintable[b - 31]
    ELSE IF b < 128 THEN "U+" \o ToString(b)
    ELSE "U+FFFD"

from_utf8_lossy(bytes) == [i \in 1..Len(bytes) |-> lossy_char(bytes[i])]

\* {:08b}: a byte as eight binary digits
RECURSIVE Bits(_, _)
Bits(n, width) ==
    IF width = 0 THEN <<>> ELSE Bits(n \div 2, width - 1) \o <<HexDigit(n % 2)>>

\* state.rs 210-217: the octets with one space between them
RECURSIVE SpacedBinary(_)
SpacedBinary(bytes) ==
    IF bytes = <<>> THEN <<>>
    ELSE IF Len(bytes) = 1 THEN Bits(bytes[1], 8)
    ELSE Bits(bytes[1], 8) \o <<" ">> \o SpacedBinary(Tail(bytes))

\* state.rs 206-219
format_bytes_for_view(bytes, view) ==
    CASE view = "Hex" -> encode_upper(bytes)
      [] view = "Text" -> from_utf8_lossy(bytes)
      [] view = "Binary" -> SpacedBinary(bytes)

\* applies that lets a rule for a label apply to a message without label
applies_unlabeled_too(target, active_label) ==
    IF target.kind = "All" THEN TRUE
    ELSE IF active_label # NoLabel THEN target.label = active_label[1]
    ELSE TRUE

\* suspects.rs 37-41
applies(target, active_label) ==
    IF target.kind = "All" THEN TRUE
    ELSE IF active_label # NoLabel THEN target.label = active_label[1]
    ELSE FALSE

\* suspect_ok that takes a Hex value for met when it is the beginning of the slice
suspect_ok_prefix(r, slice) ==
    IF r.expected_kind = "Text"
    THEN from_utf8_lossy(slice) = r.expected_value
    ELSE LET exp == parse_hex_bytes(r.expected_value)
         IN  IF exp.ok THEN starts_with(slice, exp.bytes) ELSE FALSE

\* suspects.rs 45-55: does the slice have the expected value
suspect_ok(r, slice) ==
    IF r.expected_kind = "Text"
    THEN from_utf8_lossy(slice) = r.expected_value
    ELSE LET exp == parse_hex_bytes(r.expected_value)
         IN  IF exp.ok THEN exp.bytes = slice ELSE FALSE

\* suspects.rs 57-71: the warning; its text is kept as the arguments of format!
suspect_warning(r, slice) ==
    [severity |-> r.severity,
     name |-> r.name,
     expected |-> IF r.expected_kind = "Text" THEN r.expected_value
                  ELSE <<"0", "x">> \o r.expected_value,
     start_index |-> r.start_index,
     end_index |-> r.end_index,
     got |-> IF r.expected_kind = "Text" THEN from_utf8_lossy(slice)
             ELSE <<"0", "x">> \o encode_upper(slice)]

\* suspects.rs 36-73: the body of the for loop, the warnings of one rule
rule_warnings(message, active_label, r) ==
    IF ~applies(r.target, active_label) THEN <<>>
    ELSE IF r.start_index > r.end_index \/ r.end_index >= Len(message) THEN <<>>
    ELSE LET slice == SliceIncl(message, r.start_index, r.end_index)
         IN  IF suspect_ok(r, slice) THEN <<>> ELSE <<suspect_warning(r, slice)>>

\* check_suspects_for_message that puts the warning of a later rule first
RECURSIVE check_suspects_for_message_reversed(_, _, _)
check_suspects_for_message_reversed(message, active_label, rules) ==
    IF rules = <<>> THEN <<>>
    ELSE check_suspects_for_message_reversed(message, active_label, Tail(rules))
         \o rule_warnings(message, active_label, Head(rules))

\* suspects.rs 30-75
RECURSIVE check_suspects_for_message(_, _, _)
check_suspects_for_message(message, active_label, rules) ==
    IF rules = <<>> THEN <<>>
    ELSE rule_warnings(message, active_label, Head(rules))
         \o check_suspects_for_message(message, active_label, Tail(rules))

(***************************************************************************)
(* The state of ByteBusterApp (main.rs) and of AppState (state.rs), and    *)
(* the two channels of spawn_connection (net.rs).                          *)
(***************************************************************************)
VARIABLES
    is_connected,       \* AppState::is_connected
    tx_to_writer,       \* AppState::tx_to_writer is Some
    rx_from_reader,     \* AppState::rx_from_reader is Some
    reader_thread,      \* the reader thread of spawn_connection: none, running, finished
    writer_thread,      \* the writer thread of spawn_connection: none, running, finished
    chan_reader,        \* the chunks in the channel reader thread -> pump
    chan_writer,        \* the payloads in the channel Send -> writer thread
    incoming_buffer,    \* ByteBusterApp::incoming_buffer, the accumulator
    received_messages,  \* AppState::received_messages, the history
    start_pattern,      \* AppState::start_pattern, a text
    end_pattern,        \* AppState::end_pattern, a text
    send_hex_input,     \* AppState::send_hex_input, a text
    label_rules,        \* AppState::label_rules
    suspect_rules,      \* AppState::suspect_rules
    watch_items,        \* AppState::watch_items
    watch_form,         \* AppState::new_watch_* and edit_watch_*
    label_form,         \* AppState::new_label_* and edit_label_*
    suspect_form,       \* AppState::new_suspect_* and edit_suspect_*
    left_panel_tab,     \* AppState::left_panel_tab
    critical_active,    \* AppState::critical_active
    ui_hung,            \* update() is inside a call that never returns
    shown,              \* history: label and warnings the messages panel drew
    all_bytes,          \* history: the bytes appended since the last Clear
    framed_log          \* history: the messages framed since the last Clear

connVars == <<is_connected, tx_to_writer, rx_from_reader, reader_thread, writer_thread>>
chanVars == <<chan_reader, chan_writer>>
frameVars == <<incoming_buffer, received_messages, ui_hung, all_bytes, framed_log>>
patternVars == <<start_pattern, end_pattern>>
formVars == <<watch_form, label_form, suspect_form, left_panel_tab>>
ruleVars == <<label_rules, suspect_rules, watch_items, formVars>>
displayVars == <<critical_active, shown>>
vars == <<connVars, chanVars, frameVars, patternVars, send_hex_input, ruleVars, displayVars>>

\* AppState::max_messages: set by AppState::default and never assigned again
max_messages == MaxMessages

\* the default delimiters "AA 55" and "0D 0A" of AppState::default
DefaultStartPattern == <<"A", "A", " ", "5", "5">>
DefaultEndPattern == <<"0", "D", " ", "0", "A">>

\* the form fields of AppState::default; the suspect fields are the ones the
\* Add expectation handler leaves behind (main.rs 495-500)
BlankWatchForm ==
    [new_watch_name |-> "", new_watch_range |-> <<>>,
     new_watch_view |-> "Hex", new_watch_target |-> TargetAll,
     edit_watch_idx |-> None, edit_watch_name |-> "", edit_watch_range |-> <<>>,
     edit_watch_view |-> "Hex", edit_watch_target |-> TargetAll]

BlankLabelForm ==
    [new_label_name |-> "", new_label_range |-> <<>>, new_label_value_hex |-> <<>>,
     edit_label_idx |-> None, edit_label_name |-> "", edit_label_range |-> <<>>,
     edit_label_value_hex |-> <<>>]

BlankSuspectForm ==
    [new_suspect_name |-> "", new_suspect_range |-> <<>>, new_suspect_kind |-> "Text",
     new_suspect_value |-> <<>>, new_suspect_target |-> TargetAll,
     new_suspect_severity |-> "Warning",
     edit_suspect_idx |-> None, edit_suspect_name |-> "", edit_suspect_range |-> <<>>,
     edit_suspect_kind |-> "Text", edit_suspect_value |-> <<>>,
     edit_suspect_target |-> TargetAll, edit_suspect_severity |-> "Warning"]

\* the rule lists and the forms of AppState::default
InitForms ==
    /\ watch_items = <<>>
    /\ watch_form = BlankWatchForm
    /\ label_form = BlankLabelForm
    /\ suspect_form = BlankSuspectForm
    /\ left_panel_tab = "Watch"

\* ByteBusterApp::default with AppState::default
Init ==
    /\ InitForms
    /\ is_connected = FALSE
    /\ tx_to_writer = FALSE
    /\ rx_from_reader = FALSE
    /\ reader_thread = "none"
    /\ writer_thread = "none"
    /\ chan_reader = <<>>
    /\ chan_writer = <<>>
    /\ incoming_buffer = <<>>
    /\ received_messages = <<>>
    /\ start_pattern = DefaultStartPattern
    /\ end_pattern = DefaultEndPattern
    /\ send_hex_input = <<>>
    /\ label_rules = <<>>
    /\ suspect_rules = <<>>
    /\ critical_active = FALSE
    /\ shown = <<>>
    /\ ui_hung = FALSE
    /\ all_bytes = <<>>
    /\ framed_log = <<>>

(***************************************************************************)
(* The pump of update() (main.rs 35-54).                                   *)
(***************************************************************************)
\* push_message that refuses the new message when the history is full
push_message_keep_oldest(received, msg) ==
    IF Len(received) >= max_messages THEN received ELSE Append(received, msg)

\* lines 44-48: push one message, then drain the overflow from the front
push_message(received, msg) ==
    LET pushed == Append(received, msg) IN
    IF Len(pushed) > max_messages
    THEN LET overflow == Len(pushed) - max_messages
         IN  Slice(pushed, overflow, Len(pushed))
    ELSE pushed

\* lines 43-49: the for loop over the messages of one frame_messages call
RECURSIVE push_messages(_, _)
push_messages(received, msgs) ==
    IF msgs = <<>> THEN received
    ELSE push_messages(push_message(received, Head(msgs)), Tail(msgs))

\* lines 41-42: the delimiters, decoded again for every chunk
start_delimiter == unwrap_or_default(parse_hex_bytes(start_pattern))
end_delimiter == unwrap_or_default(parse_hex_bytes(end_pattern))

\* One turn of the pump loop: try_recv gives a chunk, the chunk is appended,
\* the accumulator is framed and the messages go to the history.  When
\* frame_messages does not return, update() never gets past line 43.
PumpChunk ==
    /\ rx_from_reader
    /\ ~ui_hung
    /\ chan_reader # <<>>
    /\ LET chunk == Head(chan_reader)
           r == frame_messages(incoming_buffer \o chunk, start_delimiter, end_delimiter)
       IN  /\ chan_reader' = Tail(chan_reader)
           /\ incoming_buffer' = r.buffer
           /\ all_bytes' = all_bytes \o chunk
           /\ IF r.returned
              THEN /\ received_messages' = push_messages(received_messages, r.messages)
                   /\ framed_log' = framed_log \o r.messages
                   /\ ui_hung' = FALSE
              ELSE /\ ui_hung' = TRUE
                   /\ UNCHANGED <<received_messages, framed_log>>
    /\ UNCHANGED <<connVars, chan_writer, patternVars, send_hex_input, ruleVars, displayVars>>

(***************************************************************************)
(* The operator's controls (main.rs).                                      *)
(***************************************************************************)
\* lines 68-85: Connect; spawn_connection makes two new channels and starts
\* the two threads.  A failed connect panics, the panic is caught and nothing
\* changes.
Connect ==
    /\ ~ui_hung
    /\ ~is_connected
    /\ is_connected' = TRUE
    /\ tx_to_writer' = TRUE
    /\ rx_from_reader' = TRUE
    /\ reader_thread' = "running"
    /\ writer_thread' = "running"
    /\ chan_reader' = <<>>
    /\ chan_writer' = <<>>
    /\ UNCHANGED <<frameVars, patternVars, send_hex_input, ruleVars, displayVars>>

\* Disconnect that also empties the accumulator
Disconnect_clearing ==
    /\ ~ui_hung
    /\ is_connected
    /\ is_connected' = FALSE
    /\ tx_to_writer' = FALSE
    /\ rx_from_reader' = FALSE
    /\ UNCHANGED <<reader_thread, writer_thread>>
    /\ chan_reader' = <<>>
    /\ incoming_buffer' = <<>>
    /\ UNCHANGED <<chan_writer, received_messages, ui_hung, all_bytes, framed_log,
                   patternVars, send_hex_input, ruleVars, displayVars>>

\* lines 87-93: Disconnect drops both endpoints and the two join handles; what
\* the reader channel still holds is never received, and the threads, which
\* nobody joins, run on
Disconnect ==
    /\ ~ui_hung
    /\ is_connected
    /\ is_connected' = FALSE
    /\ tx_to_writer' = FALSE
    /\ rx_from_reader' = FALSE
    /\ UNCHANGED <<reader_thread, writer_thread>>
    /\ chan_reader' = <<>>
    /\ UNCHANGED <<chan_writer, frameVars, patternVars, send_hex_input, ruleVars, displayVars>>

\* lines 121 and 123: the two delimiter fields are edited
EditStartPattern(text) ==
    /\ ~ui_hung
    /\ start_pattern' = text
    /\ UNCHANGED <<connVars, chanVars, frameVars, end_pattern, send_hex_input, ruleVars, displayVars>>

EditEndPattern(text) ==
    /\ ~ui_hung
    /\ end_pattern' = text
    /\ UNCHANGED <<connVars, chanVars, frameVars, start_pattern, send_hex_input, ruleVars, displayVars>>

\* lines 102-106: a character is typed into the send field
TypeSend(c) ==
    /\ ~ui_hung
    /\ send_hex_input' = Append(send_hex_input, c)
    /\ UNCHANGED <<connVars, chanVars, frameVars, patternVars, ruleVars, displayVars>>

\* lines 102-106: the send field is given a new text
EditSendInput(text) ==
    /\ ~ui_hung
    /\ send_hex_input' = text
    /\ UNCHANGED <<connVars, chanVars, frameVars, patternVars, ruleVars, displayVars>>

\* Send that hands a payload to the writer whatever the decoder says
Send_unchecked ==
    /\ ~ui_hung
    /\ IF tx_to_writer
       THEN /\ Len(chan_writer) < ChannelCap
            /\ chan_writer' = Append(chan_writer,
                                     unwrap_or_default(parse_hex_bytes(send_hex_input)))
       ELSE UNCHANGED chan_writer
    /\ UNCHANGED <<connVars, chan_reader, frameVars, patternVars, send_hex_input, ruleVars, displayVars>>

\* lines 107-114: Send; the payload goes to the writer only when the whole
\* text decodes (a full channel makes send wait for room)
Send ==
    /\ ~ui_hung
    /\ IF tx_to_writer
       THEN LET r == parse_hex_bytes(send_hex_input) IN
            IF r.ok
            THEN /\ Len(chan_writer) < ChannelCap
                 /\ chan_writer' = Append(chan_writer, r.bytes)
            ELSE UNCHANGED chan_writer
       ELSE UNCHANGED chan_writer
    /\ UNCHANGED <<connVars, chan_reader, frameVars, patternVars, send_hex_input, ruleVars, displayVars>>

\* lines 637-641: Clear
Clear ==
    /\ ~ui_hung
    /\ received_messages' = <<>>
    /\ incoming_buffer' = <<>>
    /\ all_bytes' = <<>>
    /\ framed_log' = <<>>
    /\ critical_active' = FALSE
    /\ UNCHANGED <<connVars, chanVars, ui_hung, patternVars, send_hex_input, ruleVars, shown>>

(***************************************************************************)
(* The left panel (main.rs 134-631): the three tabs, each with an Add form *)
(* and the list of its rules, one of which may be in edit mode.  An index  *)
(* into a list is 0-based, as in the program.                              *)
(***************************************************************************)
\* what the handlers of the left panel leave alone
notLeftPanel == <<connVars, chanVars, frameVars, patternVars, send_hex_input, displayVars>>

\* lines 135-137: the tab is chosen
SelectTab(tab) ==
    /\ ~ui_hung
    /\ left_panel_tab' = tab
    /\ UNCHANGED <<notLeftPanel, label_rules, suspect_rules, watch_items,
                   watch_form, label_form, suspect_form>>

\* lines 174-177 (and 232-235, 477-480, 539-542): the targets a combo box offers
TargetOffered(target) ==
    \/ target = TargetAll
    \/ \E k \in 1..Len(label_rules) : target = TargetLabel(label_rules[k].name)

\* remove that takes the last element, whatever the index
remove_last(list, i) == Slice(list, 0, Len(list) - 1)

\* Vec::remove(i)
remove(list, i) == Slice(list, 0, i) \o Slice(list, i + 1, Len(list))

WatchItem(name, start_index, end_index, view, target) ==
    [name |-> name, start_index |-> start_index, end_index |-> end_index,
     view |-> view, target |-> target]

\* lines 157-178: the fields of the Add watch form are filled in
EditNewWatch(f) ==
    /\ ~ui_hung
    /\ left_panel_tab = "Watch"
    /\ TargetOffered(f.target)
    /\ watch_form' = [watch_form EXCEPT !.new_watch_name = f.name,
                                        !.new_watch_range = f.range,
                                        !.new_watch_view = f.view,
                                        !.new_watch_target = f.target]
    /\ UNCHANGED <<notLeftPanel, label_rules, suspect_rules, watch_items,
                   label_form, suspect_form, left_panel_tab>>

\* lines 180-195: Add watch
AddWatch ==
    /\ ~ui_hung
    /\ left_panel_tab = "Watch"
    /\ LET parsed == parse_index_range(watch_form.new_watch_range) IN
       IF parsed # NoRange
       THEN LET range == normalize_range(parsed) IN
            /\ watch_items' = Append(watch_items,
                   WatchItem(watch_form.new_watch_name, range[1], range[2],
                             watch_form.new_watch_view, watch_form.new_watch_target))
            /\ watch_form' = [watch_form EXCEPT !.new_watch_name = "",
                                                !.new_watch_range = <<>>,
                                                !.new_watch_view = "Hex",
                                                !.new_watch_target = TargetAll]
       ELSE UNCHANGED <<watch_items, watch_form>>
    /\ UNCHANGED <<notLeftPanel, label_rules, suspect_rules,
                   label_form, suspect_form, left_panel_tab>>

\* lines 262 and 270-278: Edit on row i (a row in edit mode has no Edit button)
StartEditWatch(i) ==
    /\ ~ui_hung
    /\ left_panel_tab = "Watch"
    /\ i < Len(watch_items)
    /\ watch_form.edit_watch_idx # i
    /\ LET item == watch_items[i + 1] IN
       watch_form' = [watch_form EXCEPT
           !.edit_watch_idx = i,
           !.edit_watch_name = item.name,
           !.edit_watch_range = format_range(item.start_index, item.end_index),
           !.edit_watch_view = item.view,
           !.edit_watch_target = item.target]
    /\ UNCHANGED <<notLeftPanel, label_rules, suspect_rules, watch_items,
                   label_form, suspect_form, left_panel_tab>>

\* lines 215-236: the fields of the row in edit mode are changed
EditEditWatch(f) ==
    /\ ~ui_hung
    /\ left_panel_tab = "Watch"
    /\ watch_form.edit_watch_idx # None
    /\ TargetOffered(f.target)
    /\ watch_form' = [watch_form EXCEPT !.edit_watch_name = f.name,
                                        !.edit_watch_range = f.range,
                                        !.edit_watch_view = f.view,
                                        !.edit_watch_target = f.target]
    /\ UNCHANGED <<notLeftPanel, label_rules, suspect_rules, watch_items,
                   label_form, suspect_form, left_panel_tab>>

\* lines 287-291 (and 294-298, 305-309): the edit state is reset
ResetEditWatch(form) ==
    [form EXCEPT !.edit_watch_idx = None, !.edit_watch_name = "",
                 !.edit_watch_range = <<>>, !.edit_watch_view = "Hex",
                 !.edit_watch_target = TargetAll]

\* lines 242-247 and 279-292: Save on the row in edit mode
SaveWatch ==
    /\ ~ui_hung
    /\ left_panel_tab = "Watch"
    /\ watch_form.edit_watch_idx # None
    /\ LET parsed == parse_index_range(watch_form.edit_watch_range)
           i == watch_form.edit_watch_idx
       IN  IF parsed # NoRange
           THEN LET range == normalize_range(parsed) IN
                /\ watch_items' = [watch_items EXCEPT ![i + 1] =
                       WatchItem(watch_form.edit_watch_name, range[1], range[2],
                                 watch_form.edit_watch_view, watch_form.edit_watch_target)]
                /\ watch_form' = ResetEditWatch(watch_form)
           ELSE UNCHANGED <<watch_items, watch_form>>
    /\ UNCHANGED <<notLeftPanel, label_rules, suspect_rules,
                   label_form, suspect_form, left_panel_tab>>

\* lines 249-251 and 293-299: Cancel on the row in edit mode
CancelEditWatch ==
    /\ ~ui_hung
    /\ left_panel_tab = "Watch"
    /\ watch_form.edit_watch_idx # None
    /\ watch_form' = ResetEditWatch(watch_form)
    /\ UNCHANGED <<notLeftPanel, label_rules, suspect_rules, watch_items,
                   label_form, suspect_form, left_panel_tab>>

\* lines 263 and 300-310: Delete on row i (a row in edit mode has no Delete
\* button)
DeleteWatch(i) ==
    /\ ~ui_hung
    /\ left_panel_tab = "Watch"
    /\ i < Len(watch_items)
    /\ watch_form.edit_watch_idx # i
    /\ watch_items' = remove(watch_items, i)
    /\ watch_form' = ResetEditWatch(watch_form)
    /\ UNCHANGED <<notLeftPanel, label_rules, suspect_rules,
                   label_form, suspect_form, left_panel_tab>>

LabelRule(name, start_index, end_index, value) ==
    [name |-> name, start_index |-> start_index, end_index |-> end_index, value |-> value]

\* lines 328-332: the fields of the Add label form are filled in
EditNewLabel(f) ==
    /\ ~ui_hung
    /\ left_panel_tab = "Labels"
    /\ label_form' = [label_form EXCEPT !.new_label_name = f.name,
                                        !.new_label_range = f.range,
                                        !.new_label_value_hex = f.value_hex]
    /\ UNCHANGED <<notLeftPanel, label_rules, suspect_rules, watch_items,
                   watch_form, suspect_form, left_panel_tab>>

\* Add label that clears its form whether or not the rule was added
AddLabel_always_clears ==
    /\ ~ui_hung
    /\ left_panel_tab = "Labels"
    /\ LET parsed == parse_index_range(label_form.new_label_range)
           value == parse_hex_bytes(label_form.new_label_value_hex)
       IN  IF parsed # NoRange /\ value.ok
           THEN label_rules' = Append(label_rules,
                   LabelRule(label_form.new_label_name, normalize_range(parsed)[1],
                             normalize_range(parsed)[2], value.bytes))
           ELSE UNCHANGED label_rules
    /\ label_form' = [label_form EXCEPT !.new_label_name = "",
                                        !.new_label_range = <<>>,
                                        !.new_label_value_hex = <<>>]
    /\ UNCHANGED <<notLeftPanel, suspect_rules, watch_items,
                   watch_form, suspect_form, left_panel_tab>>

\* lines 334-344: Add label
AddLabel ==
    /\ ~ui_hung
    /\ left_panel_tab = "Labels"
    /\ LET parsed == parse_index_range(label_form.new_label_range)
           value == parse_hex_bytes(label_form.new_label_value_hex)
       IN  IF parsed # NoRange /\ value.ok
           THEN LET range == normalize_range(parsed) IN
                /\ label_rules' = Append(label_rules,
                       LabelRule(label_form.new_label_name, range[1], range[2], value.bytes))
                /\ label_form' = [label_form EXCEPT !.new_label_name = "",
                                                    !.new_label_range = <<>>,
                                                    !.new_label_value_hex = <<>>]
           ELSE UNCHANGED <<label_rules, label_form>>
    /\ UNCHANGED <<notLeftPanel, suspect_rules, watch_items,
                   watch_form, suspect_form, left_panel_tab>>

\* lines 392 and 400-407: Edit on row i
StartEditLabel(i) ==
    /\ ~ui_hung
    /\ left_panel_tab = "Labels"
    /\ i < Len(label_rules)
    /\ label_form.edit_label_idx # i
    /\ LET rule == label_rules[i + 1] IN
       label_form' = [label_form EXCEPT
           !.edit_label_idx = i,
           !.edit_label_name = rule.name,
           !.edit_label_range = format_range(rule.start_index, rule.end_index),
           !.edit_label_value_hex = encode_upper(rule.value)]
    /\ UNCHANGED <<notLeftPanel, label_rules, suspect_rules, watch_items,
                   watch_form, suspect_form, left_panel_tab>>

\* lines 363-367: the fields of the row in edit mode are changed
EditEditLabel(f) ==
    /\ ~ui_hung
    /\ left_panel_tab = "Labels"
    /\ label_form.edit_label_idx # None
    /\ label_form' = [label_form EXCEPT !.edit_label_name = f.name,
                                        !.edit_label_range = f.range,
                                        !.edit_label_value_hex = f.value_hex]
    /\ UNCHANGED <<notLeftPanel, label_rules, suspect_rules, watch_items,
                   watch_form, suspect_form, left_panel_tab>>

\* lines 415-418 (and 421-424, 430-433): the edit state is reset
ResetEditLabel(form) ==
    [form EXCEPT !.edit_label_idx = None, !.edit_label_name = "",
                 !.edit_label_range = <<>>, !.edit_label_value_hex = <<>>]

\* lines 372-379 and 408-419: Save on the row in edit mode
SaveLabel ==
    /\ ~ui_hung
    /\ left_panel_tab = "Labels"
    /\ label_form.edit_label_idx # None
    /\ LET parsed == parse_index_range(label_form.edit_label_range)
           value == parse_hex_bytes(label_form.edit_label_value_hex)
           i == label_form.edit_label_idx
       IN  IF parsed # NoRange /\ value.ok
           THEN LET range == normalize_range(parsed) IN
                /\ label_rules' = [label_rules EXCEPT ![i + 1] =
                       LabelRule(label_form.edit_label_name, range[1], range[2], value.bytes)]
                /\ label_form' = ResetEditLabel(label_form)
           ELSE UNCHANGED <<label_rules, label_form>>
    /\ UNCHANGED <<notLeftPanel, suspect_rules, watch_items,
                   watch_form, suspect_form, left_panel_tab>>

\* lines 381-383 and 420-425: Cancel on the row in edit mode
CancelEditLabel ==
    /\ ~ui_hung
    /\ left_panel_tab = "Labels"
    /\ label_form.edit_label_idx # None
    /\ label_form' = ResetEditLabel(label_form)
    /\ UNCHANGED <<notLeftPanel, label_rules, suspect_rules, watch_items,
                   watch_form, suspect_form, left_panel_tab>>

\* lines 393 and 426-434: Delete on row i
DeleteLabel(i) ==
    /\ ~ui_hung
    /\ left_panel_tab = "Labels"
    /\ i < Len(label_rules)
    /\ label_form.edit_label_idx # i
    /\ label_rules' = remove(label_rules, i)
    /\ label_form' = ResetEditLabel(label_form)
    /\ UNCHANGED <<notLeftPanel, suspect_rules, watch_items,
                   watch_form, suspect_form, left_panel_tab>>

SuspectRule(name, start_index, end_index, expected_kind, expected_value, target, severity) ==
    [name |-> name, start_index |-> start_index, end_index |-> end_index,
     expected_kind |-> expected_kind, expected_value |-> expected_value,
     target |-> target, severity |-> severity]

\* lines 452-481: the fields of the Add expectation form are filled in
EditNewSuspect(f) ==
    /\ ~ui_hung
    /\ left_panel_tab = "Suspects"
    /\ TargetOffered(f.target)
    /\ suspect_form' = [suspect_form EXCEPT !.new_suspect_name = f.name,
                                            !.new_suspect_range = f.range,
                                            !.new_suspect_kind = f.kind,
                                            !.new_suspect_value = f.value,
                                            !.new_suspect_target = f.target,
                                            !.new_suspect_severity = f.severity]
    /\ UNCHANGED <<notLeftPanel, label_rules, suspect_rules, watch_items,
                   watch_form, label_form, left_panel_tab>>

\* lines 483-502: Add expectation
AddSuspect ==
    /\ ~ui_hung
    /\ left_panel_tab = "Suspects"
    /\ LET parsed == parse_index_range(suspect_form.new_suspect_range) IN
       IF parsed # NoRange
       THEN LET range == normalize_range(parsed) IN
            /\ suspect_rules' = Append(suspect_rules,
                   SuspectRule(suspect_form.new_suspect_name, range[1], range[2],
                               suspect_form.new_suspect_kind, suspect_form.new_suspect_value,
                               suspect_form.new_suspect_target,
                               suspect_form.new_suspect_severity))
            /\ suspect_form' = [suspect_form EXCEPT !.new_suspect_name = "",
                                                    !.new_suspect_range = <<>>,
                                                    !.new_suspect_value = <<>>,
                                                    !.new_suspect_kind = "Text",
                                                    !.new_suspect_target = TargetAll,
                                                    !.new_suspect_severity = "Warning"]
       ELSE UNCHANGED <<suspect_rules, suspect_form>>
    /\ UNCHANGED <<notLeftPanel, label_rules, watch_items,
                   watch_form, label_form, left_panel_tab>>

\* lines 581 and 589-599: Edit on row i
StartEditSuspect(i) ==
    /\ ~ui_hung
    /\ left_panel_tab = "Suspects"
    /\ i < Len(suspect_rules)
    /\ suspect_form.edit_suspect_idx # i
    /\ LET r == suspect_rules[i + 1] IN
       suspect_form' = [suspect_form EXCEPT
           !.edit_suspect_idx = i,
           !.edit_suspect_name = r.name,
           !.edit_suspect_range = format_range(r.start_index, r.end_index),
           !.edit_suspect_kind = r.expected_kind,
           !.edit_suspect_value = r.expected_value,
           !.edit_suspect_target = r.target,
           !.edit_suspect_severity = r.severity]
    /\ UNCHANGED <<notLeftPanel, label_rules, suspect_rules, watch_items,
                   watch_form, label_form, left_panel_tab>>

\* lines 521-552: the fields of the row in edit mode are changed
EditEditSuspect(f) ==
    /\ ~ui_hung
    /\ left_panel_tab = "Suspects"
    /\ suspect_form.edit_suspect_idx # None
    /\ TargetOffered(f.target)
    /\ suspect_form' = [suspect_form EXCEPT !.edit_suspect_name = f.name,
                                            !.edit_suspect_range = f.range,
                                            !.edit_suspect_kind = f.kind,
                                            !.edit_suspect_value = f.value,
                                            !.edit_suspect_target = f.target,
                                            !.edit_suspect_severity = f.severity]
    /\ UNCHANGED <<notLeftPanel, label_rules, suspect_rules, watch_items,
                   watch_form, label_form, left_panel_tab>>

\* lines 610-613 (and 616-619, 625-628): the edit state is reset; kind, target
\* and severity stay as they are
ResetEditSuspect(form) ==
    [form EXCEPT !.edit_suspect_idx = None, !.edit_suspect_name = "",
                 !.edit_suspect_range = <<>>, !.edit_suspect_value = <<>>]

\* lines 555-569 and 600-614: Save on the row in edit mode
SaveSuspect ==
    /\ ~ui_hung
    /\ left_panel_tab = "Suspects"
    /\ suspect_form.edit_suspect_idx # None
    /\ LET parsed == parse_index_range(suspect_form.edit_suspect_range)
           i == suspect_form.edit_suspect_idx
       IN  IF parsed # NoRange
           THEN LET range == normalize_range(parsed) IN
                /\ suspect_rules' = [suspect_rules EXCEPT ![i + 1] =
                       SuspectRule(suspect_form.edit_suspect_name, range[1], range[2],
                                   suspect_form.edit_suspect_kind,
                                   suspect_form.edit_suspect_value,
                                   suspect_form.edit_suspect_target,
                                   suspect_form.edit_suspect_severity)]
                /\ suspect_form' = ResetEditSuspect(suspect_form)
           ELSE UNCHANGED <<suspect_rules, suspect_form>>
    /\ UNCHANGED <<notLeftPanel, label_rules, watch_items,
                   watch_form, label_form, left_panel_tab>>

\* lines 571 and 615-620: Cancel on the row in edit mode
CancelEditSuspect ==
    /\ ~ui_hung
    /\ left_panel_tab = "Suspects"
    /\ suspect_form.edit_suspect_idx # None
    /\ suspect_form' = ResetEditSuspect(suspect_form)
    /\ UNCHANGED <<notLeftPanel, label_rules, suspect_rules, watch_items,
                   watch_form, label_form, left_panel_tab>>

\* lines 582 and 621-629: Delete on row i
DeleteSuspect(i) ==
    /\ ~ui_hung
    /\ left_panel_tab = "Suspects"
    /\ i < Len(suspect_rules)
    /\ suspect_form.edit_suspect_idx # i
    /\ suspect_rules' = remove(suspect_rules, i)
    /\ suspect_form' = ResetEditSuspect(suspect_form)
    /\ UNCHANGED <<notLeftPanel, label_rules, watch_items,
                   watch_form, label_form, left_panel_tab>>

(***************************************************************************)
(* The two threads of spawn_connection (net.rs).                           *)
(***************************************************************************)
\* the reader with a send that makes room in a full channel by dropping the
\* oldest chunk
ReaderSend_lossy(chunk) ==
    /\ reader_thread = "running"
    /\ rx_from_reader
    /\ chan_reader' = IF Len(chan_reader) < ChannelCap
                      THEN Append(chan_reader, chunk)
                      ELSE Append(Tail(chan_reader), chunk)
    /\ UNCHANGED <<connVars, chan_writer, frameVars, patternVars, send_hex_input, ruleVars, displayVars>>

\* lines 26-32: read returns n > 0 bytes and the chunk is sent to the pump; a
\* full channel makes send wait
ReaderSend(chunk) ==
    /\ reader_thread = "running"
    /\ rx_from_reader
    /\ Len(chan_reader) < ChannelCap
    /\ chan_reader' = Append(chan_reader, chunk)
    /\ UNCHANGED <<connVars, chan_writer, frameVars, patternVars, send_hex_input, ruleVars, displayVars>>

\* lines 44-52: the writer takes a payload and writes it to the socket
WriterRecv ==
    /\ writer_thread = "running"
    /\ chan_writer # <<>>
    /\ chan_writer' = Tail(chan_writer)
    /\ UNCHANGED <<connVars, chan_reader, frameVars, patternVars, send_hex_input, ruleVars, displayVars>>

\* lines 26-29: read returns Ok(0), the peer has closed the connection, and the
\* reader thread leaves its loop
ReaderEof ==
    /\ reader_thread = "running"
    /\ reader_thread' = "finished"
    /\ UNCHANGED <<is_connected, tx_to_writer, rx_from_reader, writer_thread, chanVars,
                   frameVars, patternVars, send_hex_input, ruleVars, displayVars>>

\* lines 30-34: read returns n > 0 bytes, the pump's end of the channel has
\* been dropped, send fails and the reader thread leaves its loop
ReaderSendFails ==
    /\ reader_thread = "running"
    /\ ~rx_from_reader
    /\ reader_thread' = "finished"
    /\ UNCHANGED <<is_connected, tx_to_writer, rx_from_reader, writer_thread, chanVars,
                   frameVars, patternVars, send_hex_input, ruleVars, displayVars>>

\* line 36: read returns an error (the timeout of 200 ms when the peer sends
\* nothing, or any other error) and the loop goes round again
ReaderReadErr ==
    /\ reader_thread = "running"
    /\ UNCHANGED vars

\* lines 48-51: the writer takes a payload, write_all fails and the writer
\* thread leaves its loop
WriterWriteFails ==
    /\ writer_thread = "running"
    /\ chan_writer # <<>>
    /\ chan_writer' = Tail(chan_writer)
    /\ writer_thread' = "finished"
    /\ UNCHANGED <<is_connected, tx_to_writer, rx_from_reader, reader_thread, chan_reader,
                   frameVars, patternVars, send_hex_input, ruleVars, displayVars>>

\* line 53: the channel is empty and Send's end of it has been dropped, recv
\* fails and the writer thread leaves its loop
WriterExit ==
    /\ writer_thread = "running"
    /\ ~tx_to_writer
    /\ chan_writer = <<>>
    /\ writer_thread' = "finished"
    /\ UNCHANGED <<is_connected, tx_to_writer, rx_from_reader, reader_thread, chanVars,
                   frameVars, patternVars, send_hex_input, ruleVars, displayVars>>

(***************************************************************************)
(* The messages panel (main.rs 646-718).                                   *)
(***************************************************************************)
\* lines 691-695: does a watch item apply to a message with this label
target_applies(target, active_label) ==
    IF target.kind = "All" THEN TRUE
    ELSE IF active_label # NoLabel THEN target.label = active_label[1]
    ELSE FALSE

\* lines 697-711: the row of one watch item, "-" for a range that is not in
\* the message
watch_row(msg, w) ==
    [name |-> w.name,
     range |-> <<w.start_index, w.end_index>>,
     view |-> w.view,
     value |-> IF w.start_index <= w.end_index /\ w.end_index < Len(msg)
               THEN LET bytes == SliceIncl(msg, w.start_index, w.end_index) IN
                    IF w.view = "Hex" THEN <<"0", "x">> \o encode_upper(bytes)
                    ELSE format_bytes_for_view(bytes, w.view)
               ELSE <<"-">>]

\* lines 690-712: the rows of the watch grid, one for each item that applies
RECURSIVE watch_rows(_, _, _)
watch_rows(msg, active_label, items) ==
    IF items = <<>> THEN <<>>
    ELSE (IF target_applies(Head(items).target, active_label)
          THEN <<watch_row(msg, Head(items))>> ELSE <<>>)
         \o watch_rows(msg, active_label, Tail(items))

\* lines 647-715: what is drawn for one message: its label, the warnings of
\* the suspect rules and the watch grid
panel_entry(msg) ==
    LET active_label == find_message_label(msg, label_rules)
    IN  [label |-> active_label,
         warnings |-> check_suspects_for_message(msg, active_label, suspect_rules),
         rows |-> watch_rows(msg, active_label, watch_items)]

\* the display pass with a flag that, once set, stays set
DisplayPass_sticky ==
    /\ ~ui_hung
    /\ LET drawn == [i \in 1..Len(received_messages) |-> panel_entry(received_messages[i])]
           any_critical == \E i \in 1..Len(drawn) : \E j \in 1..Len(drawn[i].warnings) :
                               drawn[i].warnings[j].severity = "Critical"
       IN  /\ shown' = drawn
           /\ critical_active' = (critical_active \/ any_critical)
    /\ UNCHANGED <<connVars, chanVars, frameVars, patternVars, send_hex_input, ruleVars>>

\* lines 646-718: every message of the history is drawn, and critical_active is
\* set when one of them has a Critical warning
DisplayPass ==
    /\ ~ui_hung
    /\ LET drawn == [i \in 1..Len(received_messages) |-> panel_entry(received_messages[i])]
           any_critical == \E i \in 1..Len(drawn) : \E j \in 1..Len(drawn[i].warnings) :
                               drawn[i].warnings[j].severity = "Critical"
       IN  /\ shown' = drawn
           /\ critical_active' = any_critical
    /\ UNCHANGED <<connVars, chanVars, frameVars, patternVars, send_hex_input, ruleVars>>

(***************************************************************************)
(* What the operator types and what the peer sends.                        *)
(***************************************************************************)
\* a text that does not decode
BadPattern == <<"G", "G">>

\* the bytes in the reader channel
RECURSIVE InFlight(_)
InFlight(chan) == IF chan = <<>> THEN 0 ELSE Len(Head(chan)) + InFlight(Tail(chan))

\* the peer has sent at most max bytes since the last Clear
Budget(chunk, max) == Len(all_bytes) + InFlight(chan_reader) + Len(chunk) <= max

(***************************************************************************)
(* Spec: the application with its default delimiters, fed the frames of    *)
(* the framing scenario.                                                   *)
(***************************************************************************)
ChunkOne == <<170, 85, 1, 13, 10>>
ChunkTwo == <<170, 85, 2, 13, 10, 170>>
AppChunks == {ChunkOne, ChunkTwo}
AppPatterns == {DefaultStartPattern, DefaultEndPattern, BadPattern}

Next ==
    \/ Connect
    \/ Disconnect
    \/ \E t \in AppPatterns : EditStartPattern(t)
    \/ \E t \in AppPatterns : EditEndPattern(t)
    \/ \E c \in AppChunks : Budget(c, MaxAppBytes) /\ ReaderSend(c)
    \/ PumpChunk
    \/ Clear

Spec == Init /\ [][Next]_vars

(***************************************************************************)
(* FrameSpec: the operator sets the delimiters, connects, and the stream   *)
(* is framed chunk by chunk; every delimiter pair and every stream over a  *)
(* two-byte alphabet, within the bounds.                                   *)
(***************************************************************************)
FrameBytes == {1, 2}
FrameChunks == SeqsOf(FrameBytes, 1, MaxChunk)
FramePatterns == {SpacedHex(d) : d \in SeqsOf(FrameBytes, 0, MaxDelim)} \cup {BadPattern}

\* the delimiters are set before the first byte arrives
Configuring == ~is_connected /\ all_bytes = <<>>

FrameNext ==
    \/ \E t \in FramePatterns : Configuring /\ EditStartPattern(t)
    \/ \E t \in FramePatterns : Configuring /\ EditEndPattern(t)
    \/ Connect
    \/ \E c \in FrameChunks : Budget(c, MaxBytes) /\ ReaderSend(c)
    \/ PumpChunk
    \/ Clear

FrameSpec == Init /\ [][FrameNext]_vars

(***************************************************************************)
(* BurstSpec: one-byte delimiters and a peer that sends bursts, chunks     *)
(* long enough to complete several frames in one call of frame_messages,   *)
(* each burst after the pump has taken the one before.                     *)
(***************************************************************************)
BurstPatterns == {SpacedHex(d) : d \in SeqsOf(FrameBytes, 1, 1)}
BurstChunks == SeqsOf(FrameBytes, 1, MaxBurst)

BurstNext ==
    \/ \E t \in BurstPatterns : Configuring /\ EditStartPattern(t)
    \/ \E t \in BurstPatterns : Configuring /\ EditEndPattern(t)
    \/ Connect
    \/ \E c \in BurstChunks : chan_reader = <<>> /\ Budget(c, MaxBurstBytes) /\ ReaderSend(c)
    \/ PumpChunk
    \/ Clear

BurstSpec == Init /\ [][BurstNext]_vars

(***************************************************************************)
(* HexSpec: the operator types a send text character by character and      *)
(* presses Send; every text over HexChars, within the bound.               *)
(***************************************************************************)
HexChars == {"0", "x", "F", "G", " "}

HexNext ==
    \/ Connect
    \/ \E c \in HexChars : Len(send_hex_input) < MaxText /\ TypeSend(c)
    \/ Send
    \/ WriterRecv

HexSpec == Init /\ [][HexNext]_vars

(***************************************************************************)
(* RoundSpec: the operator enters a byte sequence as uppercase hex tokens   *)
(* with single spaces between them and presses Send; the next text is       *)
(* entered once the writer has taken the payloads of the last one.          *)
(***************************************************************************)
RoundBytes == {0, 10, 171, 255}
RoundInputs == SeqsOf(RoundBytes, 0, MaxRound)

RoundNext ==
    \/ Connect
    \/ \E b \in RoundInputs : chan_writer = <<>> /\ EditSendInput(SpacedHex(b))
    \/ Send
    \/ WriterRecv

RoundSpec == Init /\ [][RoundNext]_vars

(***************************************************************************)
(* FormSpec: the operator works in the left panel: fills in a form, adds,  *)
(* edits, saves, cancels and deletes, in each of the three tabs.  The      *)
(* range texts cover a single index, a reversed range in both notations    *)
(* and texts that do not parse.  The operator changes the tab when no form *)
(* is half filled in, and keeps watch items or expectations, not both.     *)
(***************************************************************************)
WatchFills ==
    {[name |-> "a", range |-> <<"2", "-", "0">>, view |-> "Text", target |-> TargetAll],
     [name |-> "b", range |-> <<"1">>, view |-> "Binary", target |-> TargetLabel("L")],
     [name |-> "a", range |-> <<"x">>, view |-> "Hex", target |-> TargetAll]}

LabelFills ==
    {[name |-> "L", range |-> <<"1", "-", "0">>, value_hex |-> <<"4", "1", " ", "4", "2">>],
     [name |-> "M", range |-> <<"0">>, value_hex |-> <<"4", "1">>],
     [name |-> "L", range |-> <<"0">>, value_hex |-> <<"G", "G">>],
     [name |-> "M", range |-> <<>>, value_hex |-> <<"4", "1">>]}

SuspectFills ==
    {[name |-> "s", range |-> <<"3", ".", ".", "1">>, kind |-> "Hex", value |-> <<"4", "1">>,
      target |-> TargetAll, severity |-> "Critical"],
     [name |-> "t", range |-> <<"0">>, kind |-> "Text", value |-> <<"A">>,
      target |-> TargetLabel("L"), severity |-> "Info"],
     [name |-> "s", range |-> <<"1", "-">>, kind |-> "Hex", value |-> <<"4", "1">>,
      target |-> TargetAll, severity |-> "Critical"]}

Tabs == {"Watch", "Labels", "Suspects"}

\* no row is in edit mode and no Add form holds a text
AtRest ==
    /\ watch_form = BlankWatchForm
    /\ label_form = BlankLabelForm
    /\ suspect_form.edit_suspect_idx = None
    /\ suspect_form.new_suspect_name = ""
    /\ suspect_form.new_suspect_range = <<>>
    /\ suspect_form.new_suspect_value = <<>>

\* the watch list is worked on while there are no expectations, and the
\* expectations while there are no watch items
OneListAtATime(tab) ==
    /\ tab = "Watch" => suspect_rules = <<>>
    /\ tab = "Suspects" => watch_items = <<>>

FormNext ==
    \/ \E tab \in Tabs : AtRest /\ OneListAtATime(tab) /\ SelectTab(tab)
    \/ \E f \in WatchFills : EditNewWatch(f)
    \/ Len(watch_items) < MaxRules /\ AddWatch
    \/ \E i \in 0..(MaxRules - 1) : StartEditWatch(i)
    \/ \E f \in WatchFills : EditEditWatch(f)
    \/ SaveWatch
    \/ CancelEditWatch
    \/ \E i \in 0..(MaxRules - 1) : DeleteWatch(i)
    \/ \E f \in LabelFills : EditNewLabel(f)
    \/ Len(label_rules) < MaxRules /\ AddLabel
    \/ \E i \in 0..(MaxRules - 1) : StartEditLabel(i)
    \/ \E f \in LabelFills : EditEditLabel(f)
    \/ SaveLabel
    \/ CancelEditLabel
    \/ \E i \in 0..(MaxRules - 1) : DeleteLabel(i)
    \/ \E f \in SuspectFills : EditNewSuspect(f)
    \/ Len(suspect_rules) < MaxRules /\ AddSuspect
    \/ \E i \in 0..(MaxRules - 1) : StartEditSuspect(i)
    \/ \E f \in SuspectFills : EditEditSuspect(f)
    \/ SaveSuspect
    \/ CancelEditSuspect
    \/ \E i \in 0..(MaxRules - 1) : DeleteSuspect(i)

FormSpec == Init /\ [][FormNext]_vars

(***************************************************************************)
(* RangeSpec: the operator enters a range text in the Add form of the      *)
(* watch tab and presses Add; every text over RangeChars, within the       *)
(* bound.  A text is entered into the blank form while the list is empty.  *)
(***************************************************************************)
RangeChars == {"3", "5", "-", ".", " ", "+"}
RangeTexts == SeqsOf(RangeChars, 0, MaxRangeText)

RangeNext ==
    \/ \E t \in RangeTexts :
          /\ watch_items = <<>>
          /\ watch_form = BlankWatchForm
          /\ EditNewWatch([name |-> "a", range |-> t, view |-> "Hex", target |-> TargetAll])
    \/ AddWatch
    \/ DeleteWatch(0)

RangeSpec == Init /\ [][RangeNext]_vars

(***************************************************************************)
(* ThreadSpec: a connection with its two threads.  The peer sends frames   *)
(* in two pieces, stays silent or closes; the operator sends a payload and *)
(* disconnects, and connects again once no thread of the connection before *)
(* is left.  The writer thread is scheduled again and again: its steps are *)
(* weakly fair.  The reader thread is scheduled as well, but what its read *)
(* returns is the peer's doing: a data, an end-of-file or an error step    *)
(* has no fairness.                                                        *)
(***************************************************************************)
ThreadChunks == {<<170, 85, 1>>, <<13, 10>>}

ThreadNext ==
    \/ reader_thread # "running" /\ writer_thread # "running" /\ Connect
    \/ Disconnect
    \/ \E c \in ThreadChunks : Budget(c, MaxThreadBytes) /\ ReaderSend(c)
    \/ ReaderEof
    \/ ReaderSendFails
    \/ ReaderReadErr
    \/ PumpChunk
    \/ send_hex_input = <<>> /\ EditSendInput(<<"0", "1">>)
    \/ Send
    \/ WriterRecv
    \/ WriterWriteFails
    \/ WriterExit
    \/ Clear

ThreadSpec ==
    /\ Init
    /\ [][ThreadNext]_vars
    /\ WF_vars(WriterRecv)
    /\ WF_vars(WriterExit)

(***************************************************************************)
(* LabelSpec and SuspectSpec: the messages panel draws one message of the  *)
(* history under the rules the operator has stored.  The rule lists and    *)
(* the message are drawn from the sets below; a stored range always has    *)
(* start_index <= end_index, the Add and Save handlers see to that.        *)
(***************************************************************************)
RuleBytes == {65, 66}
RuleMessages == SeqsOf(RuleBytes, 1, MaxMsgLen)

\* label rules: on the first byte, on the second, on both, one with a value
\* shorter than its range, one past the end of a short message
LabelRuleSet ==
    {LabelRule(n, f[1], f[2], f[3]) :
        n \in {"L1", "L2"},
        f \in {<<0, 0, <<65>>>>, <<0, 0, <<66>>>>, <<1, 1, <<65>>>>,
               <<0, 1, <<65, 65>>>>, <<0, 1, <<65>>>>, <<2, 2, <<65>>>>}}

SuspectRuleSet ==
    {SuspectRule("S1", 0, 0, "Hex", <<"4", "1">>, TargetAll, "Warning"),
     SuspectRule("S2", 0, 0, "Hex", <<"4", "2">>, TargetLabel("L1"), "Critical"),
     SuspectRule("S3", 2, 2, "Hex", <<"4", "1">>, TargetAll, "Critical"),
     SuspectRule("S4", 0, 1, "Text", <<"A", "B">>, TargetAll, "Info"),
     SuspectRule("S5", 0, 0, "Hex", <<"G", "G">>, TargetAll, "Warning"),
     SuspectRule("S6", 3, 3, "Text", <<"A">>, TargetLabel("L1"), "Warning")}

\* the state after construction, but for the rules and the one framed message
InitRules(labels, suspects, msg) ==
    /\ InitForms
    /\ is_connected = FALSE
    /\ tx_to_writer = FALSE
    /\ rx_from_reader = FALSE
    /\ reader_thread = "none"
    /\ writer_thread = "none"
    /\ chan_reader = <<>>
    /\ chan_writer = <<>>
    /\ incoming_buffer = <<>>
    /\ received_messages = <<msg>>
    /\ start_pattern = DefaultStartPattern
    /\ end_pattern = DefaultEndPattern
    /\ send_hex_input = <<>>
    /\ label_rules = labels
    /\ suspect_rules = suspects
    /\ critical_active = FALSE
    /\ shown = <<>>
    /\ ui_hung = FALSE
    /\ all_bytes = msg
    /\ framed_log = <<msg>>

\* the same, with stored watch items as well
InitWatched(labels, suspects, watches, msg) ==
    /\ is_connected = FALSE
    /\ tx_to_writer = FALSE
    /\ rx_from_reader = FALSE
    /\ reader_thread = "none"
    /\ writer_thread = "none"
    /\ chan_reader = <<>>
    /\ chan_writer = <<>>
    /\ incoming_buffer = <<>>
    /\ received_messages = <<msg>>
    /\ start_pattern = DefaultStartPattern
    /\ end_pattern = DefaultEndPattern
    /\ send_hex_input = <<>>
    /\ label_rules = labels
    /\ suspect_rules = suspects
    /\ watch_items = watches
    /\ watch_form = BlankWatchForm
    /\ label_form = BlankLabelForm
    /\ suspect_form = BlankSuspectForm
    /\ left_panel_tab = "Watch"
    /\ critical_active = FALSE
    /\ shown = <<>>
    /\ ui_hung = FALSE
    /\ all_bytes = msg
    /\ framed_log = <<msg>>

LabelInit ==
    \E labels \in SeqsOf(LabelRuleSet, 0, MaxRules) : \E msg \in RuleMessages :
        InitRules(labels, <<>>, msg)

LabelNext == DisplayPass

LabelSpec == LabelInit /\ [][LabelNext]_vars

\* the message 50 49 4E 00 and the Hex rule that expects 50 49 4E 47 of it
PingMessage == <<80, 73, 78, 0>>
PingRule ==
    SuspectRule("PING", 0, 3, "Hex",
                <<"5", "0", " ", "4", "9", " ", "4", "E", " ", "4", "7">>,
                TargetAll, "Warning")

\* Hex rules whose value has as many bytes as the range, fewer, or more, and
\* one with a prefixed token and a label target
HexRuleSet ==
    {SuspectRule("H1", 0, 1, "Hex", <<"4", "1", " ", "4", "2">>, TargetAll, "Warning"),
     SuspectRule("H2", 0, 1, "Hex", <<"4", "1">>, TargetAll, "Critical"),
     SuspectRule("H3", 0, 0, "Hex", <<"4", "1", " ", "4", "2">>, TargetAll, "Info"),
     SuspectRule("H4", 0, 0, "Hex", <<"0", "x", "4", "1">>, TargetLabel("L1"), "Warning")}

SuspectInit ==
    \/ \E labels \in {<<>>, <<LabelRule("L1", 0, 0, <<65>>)>>} :
           \E suspects \in SeqsOf(SuspectRuleSet, 0, MaxRules) : \E msg \in RuleMessages :
               InitRules(labels, suspects, msg)
    \/ InitRules(<<>>, <<PingRule>>, PingMessage)
    \/ \E labels \in {<<>>, <<LabelRule("L1", 0, 0, <<65>>)>>} :
           \E suspects \in SeqsOf(HexRuleSet, 1, MaxRules) : \E msg \in RuleMessages :
               InitRules(labels, suspects, msg)

SuspectNext == DisplayPass

SuspectSpec == SuspectInit /\ [][SuspectNext]_vars

(***************************************************************************)
(* TargetSpec: the messages panel draws a message under label rules, watch *)
(* items and suspect rules with the targets All, L1 and L2.  Every suspect *)
(* rule is on the first byte.                                              *)
(***************************************************************************)
TargetLabels ==
    {<<>>,
     <<LabelRule("L1", 0, 0, <<65>>)>>,
     <<LabelRule("L2", 0, 0, <<66>>), LabelRule("L1", 0, 0, <<65>>)>>,
     <<LabelRule("L1", 0, 0, <<65>>), LabelRule("L2", 1, 1, <<65>>)>>}

TargetWatches ==
    {<<>>,
     <<WatchItem("W2", 0, 1, "Text", TargetLabel("L1"))>>,
     <<WatchItem("W1", 0, 0, "Hex", TargetAll),
       WatchItem("W2", 0, 1, "Text", TargetLabel("L1")),
       WatchItem("W3", 5, 5, "Binary", TargetLabel("L2"))>>}

TargetSuspects ==
    {SuspectRule("T1", 0, 0, "Hex", <<"0", "0">>, TargetAll, "Info"),
     SuspectRule("T2", 0, 0, "Hex", <<"4", "2">>, TargetLabel("L1"), "Warning"),
     SuspectRule("T3", 0, 0, "Text", <<"A">>, TargetLabel("L2"), "Critical")}

TargetInit ==
    \E labels \in TargetLabels : \E watches \in TargetWatches :
        \E suspects \in SeqsOf(TargetSuspects, 0, MaxRules) : \E msg \in RuleMessages :
            InitWatched(labels, suspects, watches, msg)

TargetNext == DisplayPass

TargetSpec == TargetInit /\ [][TargetNext]_vars

(***************************************************************************)
(* AlertSpec: frames with the payload 01 or 02 arrive and leave the        *)
(* history again, while the operator edits and deletes the expectation on  *)
(* the payload byte and clears the history.  update() draws the messages   *)
(* panel at the end of every call, so the pump and each control are        *)
(* followed by the display pass before the next of them.  The label rule L *)
(* (payload 02) and the expectation c are stored from the start.           *)
(***************************************************************************)
AlertChunks == {ChunkOne, <<170, 85, 2, 13, 10>>}

AlertFills ==
    {[name |-> "c", range |-> <<"2">>, kind |-> "Hex", value |-> <<"0", "1">>,
      target |-> TargetLabel("L"), severity |-> "Critical"],
     [name |-> "w", range |-> <<"2">>, kind |-> "Hex", value |-> <<"0", "1">>,
      target |-> TargetAll, severity |-> "Warning"]}

AlertInit ==
    /\ is_connected = FALSE
    /\ tx_to_writer = FALSE
    /\ rx_from_reader = FALSE
    /\ reader_thread = "none"
    /\ writer_thread = "none"
    /\ chan_reader = <<>>
    /\ chan_writer = <<>>
    /\ incoming_buffer = <<>>
    /\ received_messages = <<>>
    /\ start_pattern = DefaultStartPattern
    /\ end_pattern = DefaultEndPattern
    /\ send_hex_input = <<>>
    /\ label_rules = <<LabelRule("L", 2, 2, <<2>>)>>
    /\ suspect_rules = <<SuspectRule("c", 2, 2, "Hex", <<"0", "1">>,
                                     TargetLabel("L"), "Critical")>>
    /\ watch_items = <<>>
    /\ watch_form = BlankWatchForm
    /\ label_form = BlankLabelForm
    /\ suspect_form = BlankSuspectForm
    /\ left_panel_tab = "Suspects"
    /\ critical_active = FALSE
    /\ shown = <<>>
    /\ ui_hung = FALSE
    /\ all_bytes = <<>>
    /\ framed_log = <<>>

\* the messages panel shows the history as it is
Drawn ==
    shown = [i \in 1..Len(received_messages) |-> panel_entry(received_messages[i])]

AlertNext ==
    \/ Connect
    \/ \E c \in AlertChunks : Budget(c, MaxAlertBytes) /\ ReaderSend(c)
    \/ Drawn /\ PumpChunk
    \/ Drawn /\ Clear
    \/ DisplayPass
    \/ \E i \in 0..(MaxRules - 1) : Drawn /\ StartEditSuspect(i)
    \/ \E f \in AlertFills : Drawn /\ EditEditSuspect(f)
    \/ Drawn /\ SaveSuspect
    \/ \E i \in 0..(MaxRules - 1) : Drawn /\ DeleteSuspect(i)

AlertSpec == AlertInit /\ [][AlertNext]_vars

(***************************************************************************)
(* The framer: C1, C3, C4, C5, C8 (FrameSpec) and C9 (Spec).               *)
(***************************************************************************)
\* C1: frame_messages terminates and returns a finite list for every buffer
\* and every pair of delimiters, empty ones included: no call the pump makes
\* stays in the loop for ever.
C1_FrameMessagesReturns == ~ui_hung

\* what one extraction gives after one append of all the bytes
WholeStream == frame_messages(all_bytes, start_delimiter, end_delimiter)

\* C3 as claimed: for every pair of delimiters, the messages emitted chunk by
\* chunk (an extraction after each append) are the messages one extraction
\* emits after a single append of the concatenation, in the same order.
C3_ChunkedEqualsWhole ==
    (~ui_hung /\ WholeStream.returned) => framed_log = WholeStream.messages

\* C3 amended: the same, for every pair of delimiters whose end delimiter is
\* not empty.
C3_ChunkedEqualsWholeNonEmptyEnd ==
    end_delimiter # <<>> =>
        /\ ~ui_hung
        /\ WholeStream.returned
        /\ framed_log = WholeStream.messages

\* a frame longer than any chunk has been emitted: it arrived in pieces
C3_Witness ==
    /\ end_delimiter # <<>>
    /\ \E i \in 1..Len(framed_log) : Len(framed_log[i]) > MaxChunk

\* C4: a second call of frame_messages on the buffer a call has left, with the
\* same delimiters and nothing appended, emits no message and leaves the
\* buffer as it is.
C4_SecondCallEmitsNothing ==
    (all_bytes # <<>> /\ ~ui_hung) =>
        LET again == frame_messages(incoming_buffer, start_delimiter, end_delimiter)
        IN  /\ again.returned
            /\ again.messages = <<>>
            /\ again.buffer = incoming_buffer

\* a call has emitted messages and left bytes behind
C4_Witness ==
    /\ ~ui_hung
    /\ framed_log # <<>>
    /\ incoming_buffer # <<>>

\* C5: with both delimiters non-empty, every emitted message begins with the
\* start delimiter and ends with the end delimiter, and the two do not overlap.
C5_DelimitersIncluded ==
    (start_delimiter # <<>> /\ end_delimiter # <<>>) =>
        \A i \in 1..Len(framed_log) :
            LET msg == framed_log[i] IN
            /\ Len(msg) >= Len(start_delimiter) + Len(end_delimiter)
            /\ SubSeq(msg, 1, Len(start_delimiter)) = start_delimiter
            /\ SubSeq(msg, Len(msg) - Len(end_delimiter) + 1, Len(msg)) = end_delimiter

\* a framed message with a payload between its two delimiters
C5_Witness ==
    /\ start_delimiter # <<>>
    /\ end_delimiter # <<>>
    /\ \E i \in 1..Len(framed_log) :
           Len(framed_log[i]) > Len(start_delimiter) + Len(end_delimiter)

\* the last n elements of a sequence, all of them when it has fewer
LastN(log, n) == IF Len(log) <= n THEN log ELSE SubSeq(log, Len(log) - n + 1, Len(log))

\* C8: after every pump the history holds at most max_messages messages, and
\* they are the most recently framed ones in arrival order: the oldest is
\* evicted first.
C8_HistoryIsMostRecent ==
    /\ Len(received_messages) <= max_messages
    /\ received_messages = LastN(framed_log, max_messages)

\* more messages have been framed than the history holds
C8_Witness ==
    /\ Len(framed_log) > max_messages
    /\ Len(received_messages) = max_messages

\* the second message of the scenario
MessageTwo == <<170, 85, 2, 13, 10>>

\* C9: with start AA 55, end 0D 0A and an empty accumulator, pumping the chunk
\* AA 55 01 0D 0A emits that one message and leaves the accumulator empty, and
\* pumping AA 55 02 0D 0A AA emits the one message AA 55 02 0D 0A and leaves AA.
C9_Scenario ==
    [][(/\ start_pattern = DefaultStartPattern
        /\ end_pattern = DefaultEndPattern
        /\ incoming_buffer = <<>>
        /\ chan_reader # <<>>
        /\ all_bytes' = all_bytes \o Head(chan_reader))
       => /\ Head(chan_reader) = ChunkOne =>
                /\ framed_log' = Append(framed_log, ChunkOne)
                /\ incoming_buffer' = <<>>
          /\ Head(chan_reader) = ChunkTwo =>
                /\ framed_log' = Append(framed_log, MessageTwo)
                /\ incoming_buffer' = <<170>>]_vars

\* the scenario has run from the first chunk to the second
C9_Witness ==
    /\ start_pattern = DefaultStartPattern
    /\ end_pattern = DefaultEndPattern
    /\ all_bytes = ChunkOne \o ChunkTwo
    /\ framed_log = <<ChunkOne, MessageTwo>>
    /\ received_messages = <<ChunkOne, MessageTwo>>
    /\ incoming_buffer = <<170>>

\* the bytes of a sequence of chunks, in order
RECURSIVE Flat(_)
Flat(chunks) == IF chunks = <<>> THEN <<>> ELSE Head(chunks) \o Flat(Tail(chunks))

\* the bytes read from the socket since the last Clear that were not dropped:
\* the ones the pump has received and the ones still in the channel
Stream == all_bytes \o Flat(chan_reader)

\* C19: the channel from the reader thread to the pump never holds more than
\* its capacity; the reader waits for room instead of dropping, so while
\* connected every chunk reaches the pump exactly once and in the order read,
\* and the accumulator gets the bytes in stream order: a step either appends
\* a chunk at the back of the channel, or moves the chunk at the front of
\* the channel to the accumulator, or leaves the channel alone.
C19_ChannelKeepsEveryChunk ==
    /\ [](Len(chan_reader) <= ChannelCap)
    /\ [][(rx_from_reader /\ rx_from_reader') =>
             \/ /\ chan_reader' = chan_reader
                /\ all_bytes' \in {all_bytes, <<>>}
             \/ /\ \E chunk \in FrameChunks : chan_reader' = Append(chan_reader, chunk)
                /\ Len(chan_reader) < ChannelCap
                /\ UNCHANGED <<all_bytes, incoming_buffer>>
             \/ /\ chan_reader # <<>>
                /\ chan_reader' = Tail(chan_reader)
                /\ Stream' = Stream
                /\ \E n \in 0..Len(incoming_buffer \o Head(chan_reader)) :
                       incoming_buffer' = drain(incoming_buffer \o Head(chan_reader), n)]_vars

\* the channel is full, the pump has received chunks, and chunks of both
\* lengths are in the channel
C19_Witness ==
    /\ Len(chan_reader) = ChannelCap
    /\ all_bytes # <<>>
    /\ \E i, j \in 1..Len(chan_reader) : Len(chan_reader[i]) # Len(chan_reader[j])

\* the index of the first occurrence of pat in buf that begins at index from
\* or later, None when there is none
FirstFrom(buf, pat, from) ==
    LET at == {i \in from..(Len(buf) - Len(pat)) :
                  \A k \in 1..Len(pat) : buf[i + k] = pat[k]}
    IN  IF at = {} THEN None ELSE CHOOSE i \in at : \A j \in at : i <= j

\* msgs are cut from buf one after the other, each from the first start
\* delimiter through the first end delimiter that begins after it, with all
\* that comes before the message dropped, and rest is what is left
RECURSIVE CutFrom(_, _, _)
CutFrom(buf, msgs, rest) ==
    IF msgs = <<>> THEN rest = buf
    ELSE LET s == FirstFrom(buf, start_delimiter, 0)
             e == IF s = None THEN None
                  ELSE FirstFrom(buf, end_delimiter, s + Len(start_delimiter))
         IN  /\ s # None
             /\ e # None
             /\ Head(msgs) = SubSeq(buf, s + 1, e + Len(end_delimiter))
             /\ CutFrom(SubSeq(buf, e + Len(end_delimiter) + 1, Len(buf)), Tail(msgs), rest)

\* C20: with non-empty delimiters, each message frame_messages emits is the
\* slice from the first occurrence of the start delimiter in the current
\* buffer through the end of the first occurrence of the end delimiter that
\* begins at or after the byte following that start delimiter; emitting it
\* removes it and every byte before it, so the bytes before a start delimiter
\* are dropped and are in no message.
C20_MessageIsFirstFrame ==
    [][(PumpChunk /\ start_delimiter # <<>> /\ end_delimiter # <<>>) =>
          /\ Len(framed_log') >= Len(framed_log)
          /\ SubSeq(framed_log', 1, Len(framed_log)) = framed_log
          /\ CutFrom(incoming_buffer \o Head(chan_reader),
                     SubSeq(framed_log', Len(framed_log) + 1, Len(framed_log')),
                     incoming_buffer')]_vars

\* a message was emitted and bytes in front of its start delimiter were dropped
C20_Witness ==
    /\ start_delimiter # <<>>
    /\ end_delimiter # <<>>
    /\ framed_log # <<>>
    /\ Len(Flat(framed_log)) + Len(incoming_buffer) < Len(all_bytes)

(***************************************************************************)
(* The hex codec: C10 (HexSpec).                                           *)
(***************************************************************************)
\* a token without its one optional 0x or 0X prefix
StripOnePrefix(token) ==
    IF starts_with(token, <<"0", "x">>) \/ starts_with(token, <<"0", "X">>)
    THEN SubSeq(token, 3, Len(token))
    ELSE token

\* the value of a string of hex digits
RECURSIVE HexValue(_)
HexValue(digits) ==
    IF digits = <<>> THEN 0
    ELSE 16 * HexValue(SubSeq(digits, 1, Len(digits) - 1)) + to_digit16(digits[Len(digits)])

\* a hexadecimal number of value at most 255
IsHexByte(body) ==
    /\ body # <<>>
    /\ \A i \in 1..Len(body) : to_digit16(body[i]) # None
    /\ HexValue(body) <= 255

\* C10: parse_hex_bytes fails, with an error naming the offending token, when
\* any whitespace-separated token is not, after one optional 0x/0X prefix, a
\* hexadecimal number of value at most 255 (a bare prefix included); a failure
\* returns no bytes; the empty input gives the empty byte sequence.
C10_RejectsEveryBadToken ==
    LET r == parse_hex_bytes(send_hex_input)
        tokens == split_whitespace(send_hex_input)
        bad == {i \in 1..Len(tokens) : ~IsHexByte(StripOnePrefix(tokens[i]))}
    IN  /\ bad # {} =>
              /\ ~r.ok
              /\ "bytes" \notin DOMAIN r
              /\ \E i \in bad : r.token = tokens[i]
        /\ send_hex_input = <<>> => r = Ok(<<>>)

\* C16: when Send is pressed and the send text fails to decode, nothing is
\* handed to the writer channel, not even the bytes of the tokens before the
\* bad one; a payload is enqueued only when the whole text decodes, and it is
\* the decoded text.
C16_FailedSendEnqueuesNothing ==
    [][LET r == parse_hex_bytes(send_hex_input) IN
       /\ (Send /\ ~r.ok) => UNCHANGED chan_writer
       /\ Len(chan_writer') > Len(chan_writer) =>
              /\ r.ok
              /\ chan_writer' = Append(chan_writer, r.bytes)]_vars

\* connected, nothing on its way to the writer, and a send text whose first
\* token decodes and whose second does not
C16_Witness ==
    /\ tx_to_writer
    /\ chan_writer = <<>>
    /\ Len(split_whitespace(send_hex_input)) = 2
    /\ parse_hex_bytes(split_whitespace(send_hex_input)[1]).ok
    /\ ~parse_hex_bytes(send_hex_input).ok

\* C11: for every byte sequence b, each byte written as two uppercase hex
\* digits, the bytes joined by single spaces, decodes with parse_hex_bytes to
\* exactly b; so the payload Send hands to the writer is b.
C11_HexRoundTrip ==
    \A b \in RoundInputs :
        send_hex_input = SpacedHex(b) =>
            /\ parse_hex_bytes(send_hex_input) = Ok(b)
            /\ \A i \in 1..Len(chan_writer) : chan_writer[i] = b

\* a payload of several bytes, entered with spaces, is on its way to the writer
C11_Witness ==
    /\ chan_writer # <<>>
    /\ Len(Head(chan_writer)) >= 2
    /\ send_hex_input = SpacedHex(Head(chan_writer))

(***************************************************************************)
(* The rules: C6, C7 (LabelSpec) and C2 (SuspectSpec).                     *)
(***************************************************************************)
\* the range of a rule resolves against the message
Resolves(r, msg) == r.end_index < Len(msg)

\* the range resolves and the slice equals the value
RuleHolds(r, msg) ==
    /\ Resolves(r, msg)
    /\ SliceIncl(msg, r.start_index, r.end_index) = r.value

\* the indices of the label rules that hold of message i of the history
Holding(i) == {k \in 1..Len(label_rules) : RuleHolds(label_rules[k], received_messages[i])}

\* C6: the label of a message is the name of the lowest-index rule whose range
\* resolves and whose slice equals its value: of several rules that match, the
\* one declared first wins.
C6_FirstMatchWins ==
    \A i \in 1..Len(shown) :
        Holding(i) # {} =>
            \E k \in Holding(i) :
                /\ \A j \in Holding(i) : k <= j
                /\ shown[i].label = SomeLabel(label_rules[k].name)

\* two rules of different names match the message that was drawn
C6_Witness ==
    /\ shown # <<>>
    /\ \E j, k \in Holding(1) : j < k /\ label_rules[j].name # label_rules[k].name

\* a rule that is passed over: its range does not resolve, or its value has
\* another length than its range
Skipped(r, msg) ==
    \/ ~Resolves(r, msg)
    \/ Len(r.value) # r.end_index - r.start_index + 1

\* C7: a rule whose range does not resolve or whose value length differs from
\* the range length is skipped and the scan goes on, so a later rule still
\* matches; when no rule matches, the label is None.
C7_SkipsAndGoesOn ==
    \A i \in 1..Len(shown) :
        /\ \A k \in Holding(i) :
               (\A j \in 1..(k - 1) : Skipped(label_rules[j], received_messages[i]))
                   => shown[i].label = SomeLabel(label_rules[k].name)
        /\ Holding(i) = {} => shown[i].label = NoLabel

\* the first rule is out of range for the message, the second one labels it
C7_Witness ==
    /\ Len(shown) = 1
    /\ Len(label_rules) = 2
    /\ ~Resolves(label_rules[1], received_messages[1])
    /\ shown[1].label = SomeLabel(label_rules[2].name)

\* C2: an applying suspect rule whose range does not resolve against the
\* message (end_index >= message length) gives a warning for that rule: it
\* counts as a mismatch and is not skipped.
C2_UnresolvableRangeWarns ==
    \A i \in 1..Len(shown) : \A k \in 1..Len(suspect_rules) :
        LET r == suspect_rules[k] IN
        (/\ r.target.kind = "Label" => shown[i].label = SomeLabel(r.target.label)
         /\ r.end_index >= Len(received_messages[i]))
            => \E w \in 1..Len(shown[i].warnings) : shown[i].warnings[w].name = r.name

(***************************************************************************)
(* The left panel: C12, C17, C18 (FormSpec).                               *)
(***************************************************************************)
\* C12: after any sequence of Add and Save on watch items, label rules and
\* suspect rules, every stored rule has start_index <= end_index, also when
\* the range was entered in reverse order.
C12_StoredRangesOrdered ==
    /\ \A k \in 1..Len(watch_items) : watch_items[k].start_index <= watch_items[k].end_index
    /\ \A k \in 1..Len(label_rules) : label_rules[k].start_index <= label_rules[k].end_index
    /\ \A k \in 1..Len(suspect_rules) :
           suspect_rules[k].start_index <= suspect_rules[k].end_index

\* the label rule entered as 1-0 and the expectation entered as 3..1 are stored
C12_Witness ==
    /\ \E k \in 1..Len(label_rules) :
           label_rules[k].start_index = 0 /\ label_rules[k].end_index = 1
    /\ \E k \in 1..Len(suspect_rules) :
           suspect_rules[k].start_index = 1 /\ suspect_rules[k].end_index = 3

\* new is old with one element more, at the end
Appended(old, new) ==
    /\ Len(new) = Len(old) + 1
    /\ \A k \in 1..Len(old) : new[k] = old[k]

\* new is old with the element at index i (0-based) replaced and no other
\* element touched
ReplacedAt(old, new, i) ==
    /\ Len(new) = Len(old)
    /\ \A k \in 1..Len(old) : k # i + 1 => new[k] = old[k]

\* new is old without the element at index i (0-based), the rest in order
RemovedAt(old, new, i) ==
    /\ Len(new) = Len(old) - 1
    /\ \A k \in 1..Len(new) : new[k] = IF k <= i THEN old[k] ELSE old[k + 1]

\* the range a range text stands for, the smaller index first
RangeOf(text) ==
    LET r == parse_index_range(text) IN
    <<IF r[1] <= r[2] THEN r[1] ELSE r[2], IF r[1] <= r[2] THEN r[2] ELSE r[1]>>

\* C17, watch items: Add appends at the end, Save replaces every field of
\* the item at the edited position and moves no item, Delete removes the
\* item at its position only.
C17_Watch ==
    /\ AddWatch =>
           \/ UNCHANGED watch_items
           \/ /\ Appended(watch_items, watch_items')
              /\ watch_items'[Len(watch_items')] =
                     WatchItem(watch_form.new_watch_name,
                               RangeOf(watch_form.new_watch_range)[1],
                               RangeOf(watch_form.new_watch_range)[2],
                               watch_form.new_watch_view, watch_form.new_watch_target)
    /\ SaveWatch =>
           \/ UNCHANGED watch_items
           \/ /\ ReplacedAt(watch_items, watch_items', watch_form.edit_watch_idx)
              /\ watch_items'[watch_form.edit_watch_idx + 1] =
                     WatchItem(watch_form.edit_watch_name,
                               RangeOf(watch_form.edit_watch_range)[1],
                               RangeOf(watch_form.edit_watch_range)[2],
                               watch_form.edit_watch_view, watch_form.edit_watch_target)
    /\ \A i \in 0..(MaxRules - 1) :
           DeleteWatch(i) => RemovedAt(watch_items, watch_items', i)

\* C17, label rules
C17_Labels ==
    /\ AddLabel =>
           \/ UNCHANGED label_rules
           \/ /\ Appended(label_rules, label_rules')
              /\ label_rules'[Len(label_rules')] =
                     LabelRule(label_form.new_label_name,
                               RangeOf(label_form.new_label_range)[1],
                               RangeOf(label_form.new_label_range)[2],
                               parse_hex_bytes(label_form.new_label_value_hex).bytes)
    /\ SaveLabel =>
           \/ UNCHANGED label_rules
           \/ /\ ReplacedAt(label_rules, label_rules', label_form.edit_label_idx)
              /\ label_rules'[label_form.edit_label_idx + 1] =
                     LabelRule(label_form.edit_label_name,
                               RangeOf(label_form.edit_label_range)[1],
                               RangeOf(label_form.edit_label_range)[2],
                               parse_hex_bytes(label_form.edit_label_value_hex).bytes)
    /\ \A i \in 0..(MaxRules - 1) :
           DeleteLabel(i) => RemovedAt(label_rules, label_rules', i)

\* C17, suspect rules
C17_Suspects ==
    /\ AddSuspect =>
           \/ UNCHANGED suspect_rules
           \/ /\ Appended(suspect_rules, suspect_rules')
              /\ suspect_rules'[Len(suspect_rules')] =
                     SuspectRule(suspect_form.new_suspect_name,
                                 RangeOf(suspect_form.new_suspect_range)[1],
                                 RangeOf(suspect_form.new_suspect_range)[2],
                                 suspect_form.new_suspect_kind,
                                 suspect_form.new_suspect_value,
                                 suspect_form.new_suspect_target,
                                 suspect_form.new_suspect_severity)
    /\ SaveSuspect =>
           \/ UNCHANGED suspect_rules
           \/ /\ ReplacedAt(suspect_rules, suspect_rules', suspect_form.edit_suspect_idx)
              /\ suspect_rules'[suspect_form.edit_suspect_idx + 1] =
                     SuspectRule(suspect_form.edit_suspect_name,
                                 RangeOf(suspect_form.edit_suspect_range)[1],
                                 RangeOf(suspect_form.edit_suspect_range)[2],
                                 suspect_form.edit_suspect_kind,
                                 suspect_form.edit_suspect_value,
                                 suspect_form.edit_suspect_target,
                                 suspect_form.edit_suspect_severity)
    /\ \A i \in 0..(MaxRules - 1) :
           DeleteSuspect(i) => RemovedAt(suspect_rules, suspect_rules', i)

\* a list after a step: as it was, or one element appended, replaced or removed
OrderKept(old, new) ==
    \/ new = old
    \/ Appended(old, new)
    \/ \E i \in 0..(Len(old) - 1) : ReplacedAt(old, new, i) \/ RemovedAt(old, new, i)

\* C17: for each of the three rule lists, Add appends the new rule at the
\* end, Save replaces every field of the rule at the edited position and moves
\* no rule, Delete removes only the rule at its position, and no operation
\* changes the relative order of the other rules.
C17_ListOperations ==
    [][/\ C17_Watch
       /\ C17_Labels
       /\ C17_Suspects
       /\ OrderKept(watch_items, watch_items')
       /\ OrderKept(label_rules, label_rules')
       /\ OrderKept(suspect_rules, suspect_rules')]_vars

\* two different rules are stored, and the first of them is in edit mode with
\* another name in its name field
C17_Witness ==
    /\ Len(label_rules) = 2
    /\ label_rules[1].name # label_rules[2].name
    /\ label_form.edit_label_idx = 0
    /\ label_form.edit_label_name # label_rules[1].name

\* C18: an Add or Save whose range text does not parse, or, for a label rule,
\* whose value text does not decode, leaves the rule list, the input fields
\* and the edit mode as they are: the fields are cleared by an Add or Save
\* only when it succeeds.
C18_FailedAddOrSave ==
    [][/\ (AddWatch /\ parse_index_range(watch_form.new_watch_range) = NoRange)
           => UNCHANGED <<watch_items, watch_form>>
       /\ (SaveWatch /\ parse_index_range(watch_form.edit_watch_range) = NoRange)
           => UNCHANGED <<watch_items, watch_form>>
       /\ (AddLabel /\ (\/ parse_index_range(label_form.new_label_range) = NoRange
                         \/ ~parse_hex_bytes(label_form.new_label_value_hex).ok))
           => UNCHANGED <<label_rules, label_form>>
       /\ (SaveLabel /\ (\/ parse_index_range(label_form.edit_label_range) = NoRange
                          \/ ~parse_hex_bytes(label_form.edit_label_value_hex).ok))
           => UNCHANGED <<label_rules, label_form>>
       /\ (AddSuspect /\ parse_index_range(suspect_form.new_suspect_range) = NoRange)
           => UNCHANGED <<suspect_rules, suspect_form>>
       /\ (SaveSuspect /\ parse_index_range(suspect_form.edit_suspect_range) = NoRange)
           => UNCHANGED <<suspect_rules, suspect_form>>]_vars

\* a row is in edit mode with a value text that does not decode, and the Add
\* form holds a range text that does not parse
C18_Witness ==
    /\ label_form.edit_label_idx # None
    /\ ~parse_hex_bytes(label_form.edit_label_value_hex).ok
    /\ label_form.new_label_name # ""
    /\ parse_index_range(label_form.new_label_range) = NoRange

(***************************************************************************)
(* Targets: C13 (TargetSpec).                                              *)
(***************************************************************************)
\* a rule with this target applies to a message with this label: All applies
\* to every message, Label(x) exactly to the messages labelled x
AppliesTo(target, label) ==
    \/ target = TargetAll
    \/ target.kind = "Label" /\ label = SomeLabel(target.label)

\* C13: watch items and suspect rules have the same applicability: a rule with
\* target All applies to every message, a rule with target Label(x) exactly
\* when find_message_label gives x, never to a message without label; a
\* watch item has a row exactly when it applies, and a suspect rule that does
\* not apply gives no warning (one that applies to a first byte other than
\* the expected one gives its warning).
C13_SameApplicability ==
    \A i \in 1..Len(shown) :
        LET msg == received_messages[i]
            label == find_message_label(msg, label_rules)
        IN  /\ shown[i].label = label
            /\ \A k \in 1..Len(watch_items) :
                   AppliesTo(watch_items[k].target, label)
                       <=> \E j \in 1..Len(shown[i].rows) :
                               shown[i].rows[j].name = watch_items[k].name
            /\ \A k \in 1..Len(suspect_rules) :
                   LET r == suspect_rules[k]
                       expected == IF r.expected_kind = "Hex"
                                   THEN <<"0", "x">> \o r.expected_value
                                   ELSE r.expected_value
                       got == IF r.expected_kind = "Hex"
                              THEN <<"0", "x">> \o Hex2(msg[1])
                              ELSE <<lossy_char(msg[1])>>
                   IN  (AppliesTo(r.target, label) /\ got # expected)
                           <=> \E j \in 1..Len(shown[i].warnings) :
                                   shown[i].warnings[j].name = r.name

\* a message without label and a message labelled L1 were drawn under a watch
\* item and a suspect rule for L1, next to ones for All
C13_Witness ==
    /\ Len(shown) = 1
    /\ Len(watch_items) = 3
    /\ \E k \in 1..Len(suspect_rules) : suspect_rules[k].target = TargetLabel("L1")
    /\ shown[1].label = SomeLabel("L1")
    /\ Len(shown[1].rows) = 2
    /\ shown[1].warnings # <<>>

(***************************************************************************)
(* The warning text: C14 (SuspectSpec).                                    *)
(***************************************************************************)
\* C14: the Hex rule over [0,3] with expected text "50 49 4E 47" and severity
\* Warning, evaluated against the message 50 49 4E 00, gives exactly one
\* warning, of severity Warning, whose text has 0x50494E47 as the expected
\* value and 0x50494E00 as the actual value.
C14_PingWarning ==
    \A i \in 1..Len(shown) :
        (received_messages[i] = PingMessage /\ suspect_rules = <<PingRule>>) =>
            /\ Len(shown[i].warnings) = 1
            /\ shown[i].warnings[1].severity = "Warning"
            /\ shown[i].warnings[1].expected =
                   <<"0", "x", "5", "0", "4", "9", "4", "E", "4", "7">>
            /\ shown[i].warnings[1].got =
                   <<"0", "x", "5", "0", "4", "9", "4", "E", "0", "0">>

(***************************************************************************)
(* The critical alert: C15 (AlertSpec).                                    *)
(***************************************************************************)
\* the message gets a Critical warning under the current label and suspect
\* rules
YieldsCritical(msg) ==
    LET warnings == check_suspects_for_message(
                        msg, find_message_label(msg, label_rules), suspect_rules)
    IN  \E j \in 1..Len(warnings) : warnings[j].severity = "Critical"

\* a message of the history gets a Critical warning
CriticalNow == \E i \in 1..Len(received_messages) : YieldsCritical(received_messages[i])

\* C15: at the end of every display pass critical_active is true exactly when
\* a message of the history gets a Critical warning under the current label
\* and suspect rules; so it is false again after the pass that follows the
\* edit or deletion of the rule, the eviction of the message, or Clear.
C15_CriticalFlagDerived ==
    [][DisplayPass => (critical_active' = CriticalNow')]_vars

\* the panel is up to date and the flag is down, though a message that has
\* left the history would get a Critical warning
C15_Witness ==
    /\ ~critical_active
    /\ received_messages # <<>>
    /\ Drawn
    /\ Len(framed_log) > Len(received_messages)
    /\ YieldsCritical(framed_log[1])

(***************************************************************************)
(* The framer, call by call: C21, C22, C26, C27 (FrameSpec).               *)
(***************************************************************************)
\* pat occurs in buf at index i (the empty pattern occurs at every index,
\* the end of buf included)
OccursAt(buf, pat, i) ==
    /\ i >= 0
    /\ i + Len(pat) <= Len(buf)
    /\ \A k \in 1..Len(pat) : buf[i + k] = pat[k]

\* pat occurs somewhere in buf
Has(buf, pat) == \E i \in 0..Len(buf) : OccursAt(buf, pat, i)

\* the buffer frame_messages is called on by the pump: the accumulator with
\* the chunk at the front of the channel appended
PreCall == incoming_buffer \o Head(chan_reader)

\* the messages the step has added to the log of framed messages
Emitted == SubSeq(framed_log', Len(framed_log) + 1, Len(framed_log'))

\* buf holds no start delimiter, or its first start delimiter has no end
\* delimiter that begins at or after the byte following it
NoFrameIn(buf, start, end) ==
    \/ \A i \in 0..Len(buf) : ~OccursAt(buf, start, i)
    \/ \E i \in 0..Len(buf) :
          /\ OccursAt(buf, start, i)
          /\ \A h \in 0..(i - 1) : ~OccursAt(buf, start, h)
          /\ \A j \in (i + Len(start))..Len(buf) : ~OccursAt(buf, end, j)

\* C21: when the buffer holds no start delimiter, or holds a first start
\* delimiter with no end delimiter after it, the call emits nothing and
\* leaves the buffer as it is, byte for byte: the bytes in front of an
\* unmatched start delimiter stay.
C21_NoFrameNoChange ==
    [][(PumpChunk /\ NoFrameIn(PreCall, start_delimiter, end_delimiter)) =>
          /\ ~ui_hung'
          /\ framed_log' = framed_log
          /\ received_messages' = received_messages
          /\ incoming_buffer' = PreCall]_vars

\* calls have left a buffer that holds a start delimiter with bytes in front
\* of it and no end delimiter after it, and nothing was ever emitted
C21_Witness ==
    /\ ~ui_hung
    /\ start_delimiter # <<>>
    /\ end_delimiter # <<>>
    /\ framed_log = <<>>
    /\ incoming_buffer = all_bytes
    /\ \E i \in 1..Len(incoming_buffer) : OccursAt(incoming_buffer, start_delimiter, i)
    /\ NoFrameIn(incoming_buffer, start_delimiter, end_delimiter)

\* C22: with an empty start delimiter the start match is index 0, so every
\* message a call emits begins at the first byte of the buffer it is cut from:
\* nothing lies in front of a message, and the messages followed by what the
\* call leaves are the buffer it was given.  With an empty end delimiter and a
\* non-empty start delimiter that occurs in the buffer, a call emits exactly
\* one message, from the first start delimiter to the end of the buffer, and
\* leaves the buffer empty.
C22_EmptyDelimiters ==
    [][PumpChunk =>
          /\ (start_delimiter = <<>> /\ ~ui_hung') =>
                 Flat(Emitted) \o incoming_buffer' = PreCall
          /\ (start_delimiter # <<>> /\ end_delimiter = <<>>
                 /\ \E i \in 0..Len(PreCall) : OccursAt(PreCall, start_delimiter, i)) =>
                 LET s == CHOOSE i \in 0..Len(PreCall) :
                              /\ OccursAt(PreCall, start_delimiter, i)
                              /\ \A h \in 0..(i - 1) : ~OccursAt(PreCall, start_delimiter, h)
                 IN  /\ ~ui_hung'
                     /\ Emitted = <<SubSeq(PreCall, s + 1, Len(PreCall))>>
                     /\ incoming_buffer' = <<>>]_vars

\* with an empty end delimiter, calls have emitted two messages of different
\* lengths, dropped bytes in front of a start delimiter, and left nothing
C22_Witness ==
    /\ start_delimiter # <<>>
    /\ end_delimiter = <<>>
    /\ ~ui_hung
    /\ incoming_buffer = <<>>
    /\ Len(framed_log) >= 2
    /\ Len(framed_log[1]) # Len(framed_log[2])
    /\ Len(Flat(framed_log)) < Len(all_bytes)

\* msgs are slices of buf that follow one another without overlap: each lies
\* at or after index from, and the next at or after the end of the one before;
\* rest is what buf ends with, after the last of them
RECURSIVE SlicesInOrder(_, _, _, _)
SlicesInOrder(buf, msgs, from, rest) ==
    IF msgs = <<>>
    THEN /\ Len(rest) <= Len(buf) - from
         /\ SubSeq(buf, Len(buf) - Len(rest) + 1, Len(buf)) = rest
    ELSE \E p \in from..(Len(buf) - Len(Head(msgs))) :
            /\ SubSeq(buf, p + 1, p + Len(Head(msgs))) = Head(msgs)
            /\ SlicesInOrder(buf, Tail(msgs), p + Len(Head(msgs)), rest)

\* C26: with non-empty delimiters, the accumulator after a call of
\* frame_messages is a suffix of the accumulator before the call (the chunk
\* appended), and the messages of the call are contiguous slices of it that
\* do not overlap and come in increasing position: no byte is moved, changed
\* or put into two messages.  An append puts the chunk at the tail.
C26_SuffixAndDisjointSlices ==
    [][(PumpChunk /\ start_delimiter # <<>> /\ end_delimiter # <<>>) =>
          /\ ~ui_hung'
          /\ all_bytes' = all_bytes \o Head(chan_reader)
          /\ SlicesInOrder(PreCall, Emitted, 0, incoming_buffer')]_vars

\* two messages of different lengths were emitted, bytes in front of a start
\* delimiter were dropped, and the accumulator still holds bytes
C26_Witness ==
    /\ start_delimiter # <<>>
    /\ end_delimiter # <<>>
    /\ Len(framed_log) = 2
    /\ Len(framed_log[1]) # Len(framed_log[2])
    /\ incoming_buffer # <<>>
    /\ Len(Flat(framed_log)) + Len(incoming_buffer) < Len(all_bytes)

\* buf holds a complete frame: an occurrence of the start delimiter followed,
\* at or after the byte following it, by an occurrence of the end delimiter
CompleteFrameIn(buf, start, end) ==
    \E i \in 0..Len(buf) : \E j \in 0..Len(buf) :
        /\ OccursAt(buf, start, i)
        /\ j >= i + Len(start)
        /\ OccursAt(buf, end, j)

\* C27: with non-empty delimiters, the buffer a call of frame_messages leaves
\* holds no complete frame.
C27_NoCompleteFrameLeft ==
    [][(PumpChunk /\ start_delimiter # <<>> /\ end_delimiter # <<>>) =>
          /\ ~ui_hung'
          /\ ~CompleteFrameIn(incoming_buffer', start_delimiter, end_delimiter)]_vars

\* calls have emitted a message and left a buffer that holds both delimiters,
\* the end delimiter not after the start delimiter
C27_Witness ==
    /\ ~ui_hung
    /\ start_delimiter # <<>>
    /\ end_delimiter # <<>>
    /\ framed_log # <<>>
    /\ Has(incoming_buffer, start_delimiter)
    /\ Has(incoming_buffer, end_delimiter)
    /\ ~CompleteFrameIn(incoming_buffer, start_delimiter, end_delimiter)

(***************************************************************************)
(* The warnings of a message: C23, C24 (SuspectSpec).                      *)
(***************************************************************************)
\* the warning w was produced by the rule r: it carries the name, the range
\* and the severity configured on r
WarningOf(w, r) ==
    /\ w.name = r.name
    /\ w.start_index = r.start_index
    /\ w.end_index = r.end_index
    /\ w.severity = r.severity

\* C23: the warnings drawn for a message are at most one per rule, in the
\* order of the rules, each with the severity of its rule: there is a strictly
\* increasing map from the warnings to the rules that sends every warning to
\* the rule that produced it.
C23_WarningsFollowRules ==
    \A i \in 1..Len(shown) :
        LET ws == shown[i].warnings IN
        \E f \in [1..Len(ws) -> 1..Len(suspect_rules)] :
            /\ \A j, k \in 1..Len(ws) : j < k => f[j] < f[k]
            /\ \A j \in 1..Len(ws) : WarningOf(ws[j], suspect_rules[f[j]])

\* a message was drawn with two warnings of different severities, from two
\* different rules
C23_Witness ==
    /\ shown # <<>>
    /\ Len(shown[1].warnings) >= 2
    /\ shown[1].warnings[1].severity # shown[1].warnings[2].severity
    /\ shown[1].warnings[1].name # shown[1].warnings[2].name

\* the rule r applies to the drawn message i and its range resolves in it
AppliesAndResolves(r, i) ==
    /\ AppliesTo(r.target, shown[i].label)
    /\ r.start_index <= r.end_index
    /\ r.end_index < Len(received_messages[i])

\* a warning of the rule r was drawn for the message i
Warned(r, i) ==
    \E j \in 1..Len(shown[i].warnings) : WarningOf(shown[i].warnings[j], r)

\* C24: for a Hex rule that applies and whose range resolves, no warning is
\* drawn exactly when the expected text decodes with parse_hex_bytes to the
\* bytes of the slice; an expected text that does not decode, or that decodes
\* to another number of bytes than the range has, gives a warning every time.
C24_HexRuleEquality ==
    \A i \in 1..Len(shown) : \A k \in 1..Len(suspect_rules) :
        LET r == suspect_rules[k]
            slice == SubSeq(received_messages[i], r.start_index + 1, r.end_index + 1)
            exp == parse_hex_bytes(r.expected_value)
        IN  (r.expected_kind = "Hex" /\ AppliesAndResolves(r, i)) =>
                /\ ~Warned(r, i) <=> (exp.ok /\ exp.bytes = slice)
                /\ ~exp.ok => Warned(r, i)
                /\ (exp.ok /\ Len(exp.bytes) # r.end_index - r.start_index + 1) => Warned(r, i)

\* a message was drawn under two Hex rules that apply and resolve: one whose
\* two-byte value is the slice and gave no warning, one whose value decodes to
\* fewer bytes than its range and gave a warning
C24_Witness ==
    /\ shown # <<>>
    /\ \E k, m \in 1..Len(suspect_rules) :
          LET r == suspect_rules[k]
              q == suspect_rules[m]
          IN  /\ r.expected_kind = "Hex" /\ AppliesAndResolves(r, 1)
              /\ parse_hex_bytes(r.expected_value).ok
              /\ Len(parse_hex_bytes(r.expected_value).bytes) = 2
              /\ ~Warned(r, 1)
              /\ q.expected_kind = "Hex" /\ AppliesAndResolves(q, 1)
              /\ parse_hex_bytes(q.expected_value).ok
              /\ Len(parse_hex_bytes(q.expected_value).bytes) < q.end_index - q.start_index + 1
              /\ Warned(q, 1)

(***************************************************************************)
(* The range parser: C25 (RangeSpec).                                      *)
(***************************************************************************)
\* the text without the whitespace at its two ends
Trimmed(text) ==
    LET solid == {i \in 1..Len(text) : text[i] \notin {" ", "\t"}}
    IN  IF solid = {} THEN <<>>
        ELSE SubSeq(text, CHOOSE i \in solid : \A j \in solid : i <= j,
                          CHOOSE i \in solid : \A j \in solid : i >= j)

\* the digits of an unsigned integer as usize::from_str reads one: decimal
\* digits, at least one, after one optional '+'; <<>> when the text is none
UnsignedDigits(text) ==
    LET body == IF text # <<>> /\ text[1] = "+" THEN SubSeq(text, 2, Len(text)) ELSE text
    IN  IF body # <<>> /\ \A i \in 1..Len(body) : body[i] \in {"3", "5"} THEN body ELSE <<>>

IsUnsigned(text) == UnsignedDigits(Trimmed(text)) # <<>>

\* the number a string of the digits 3 and 5 stands for
RECURSIVE DigitsNumber(_)
DigitsNumber(digits) ==
    IF digits = <<>> THEN 0
    ELSE 10 * DigitsNumber(SubSeq(digits, 1, Len(digits) - 1))
         + (IF digits[Len(digits)] = "3" THEN 3 ELSE 5)

Unsigned(text) == DigitsNumber(UnsignedDigits(Trimmed(text)))

\* the two sides of the first occurrence of sep in text, as a range: the pair
\* in the order written when both sides are unsigned integers, else None
SidesOf(text, sep) ==
    LET at == CHOOSE i \in 0..Len(text) :
                  /\ OccursAt(text, sep, i)
                  /\ \A h \in 0..(i - 1) : ~OccursAt(text, sep, h)
        a == SubSeq(text, 1, at)
        b == SubSeq(text, at + Len(sep) + 1, Len(text))
    IN  IF IsUnsigned(a) /\ IsUnsigned(b) THEN <<Unsigned(a), Unsigned(b)>> ELSE NoRange

\* the grammar: empty is None; a text with '-' is read as a-b and as nothing
\* else; then a plain unsigned integer n is (n, n); then a..b
RangeGrammar(text) ==
    LET t == Trimmed(text) IN
    IF t = <<>> THEN NoRange
    ELSE IF Has(t, <<"-">>) THEN SidesOf(t, <<"-">>)
    ELSE IF IsUnsigned(t) THEN <<Unsigned(t), Unsigned(t)>>
    ELSE IF Has(t, <<".", ".">>) THEN SidesOf(t, <<".", ".">>)
    ELSE NoRange

\* C25: parse_index_range trims its input and returns None for empty input; a
\* text with '-' is split on the first '-' and gives (a, b) only when both
\* sides are unsigned integers, None otherwise, whatever the other grammars
\* would make of it; else a plain unsigned integer n gives (n, n); else a..b
\* gives (a, b); the pair comes in the order written ("5-3" gives (5, 3)).
\* Add stores the pair it is given, smaller number first, and stores nothing
\* when the parser returns None.
C25_RangeGrammar ==
    /\ [](LET text == watch_form.new_watch_range IN
          /\ parse_index_range(text) = RangeGrammar(text)
          /\ text = <<"5", "-", "3">> => parse_index_range(text) = <<5, 3>>)
    /\ [][AddWatch =>
            LET want == RangeGrammar(watch_form.new_watch_range) IN
            IF want = NoRange THEN UNCHANGED <<watch_items, watch_form>>
            ELSE /\ Len(watch_items') = Len(watch_items) + 1
                 /\ LET w == watch_items'[Len(watch_items')] IN
                    {w.start_index, w.end_index} = {want[1], want[2]}]_vars

\* Add has stored the watch item of a range entered with two different numbers
C25_Witness ==
    /\ Len(watch_items) = 1
    /\ watch_items[1].start_index = 3
    /\ watch_items[1].end_index = 5
    /\ watch_form = BlankWatchForm

(***************************************************************************)
(* Editing a label rule: C28 (FormSpec).                                   *)
(***************************************************************************)
\* the edit fields of the label form are as Edit on a row filled them: the
\* operator has changed nothing
EditUntouched ==
    /\ label_form.edit_label_idx # None
    /\ label_form.edit_label_idx < Len(label_rules)
    /\ LET rule == label_rules[label_form.edit_label_idx + 1] IN
       /\ label_form.edit_label_name = rule.name
       /\ label_form.edit_label_range = format_range(rule.start_index, rule.end_index)
       /\ label_form.edit_label_value_hex = encode_upper(rule.value)

\* C28: Edit on a stored label rule followed by Save, with no field changed,
\* ends the edit (edit_label_idx is None again) and leaves the name, the range
\* and the value of the rule as they were, whatever the rule, a value of two
\* or more bytes included.
C28_UnchangedSaveCompletes ==
    EditUntouched =>
        ENABLED (/\ SaveLabel
                 /\ label_form'.edit_label_idx = None
                 /\ label_rules' = label_rules)

(***************************************************************************)
(* Disconnect and the two threads: C29, C30 (ThreadSpec).                  *)
(***************************************************************************)
\* C29: Disconnect changes the connection state only: is_connected and the
\* two channel endpoints (and with the endpoint the chunks the pump has not
\* received).  The accumulator and the history stay as they are, and so does
\* everything else; Connect does not touch them either.  So the bytes received
\* over all connections since the last Clear are framed as one stream: the
\* bytes of an incomplete frame are framed with the bytes the next connection
\* brings.
C29_DisconnectKeepsBytes ==
    /\ [][Disconnect =>
            /\ ~is_connected' /\ ~tx_to_writer' /\ ~rx_from_reader'
            /\ UNCHANGED <<incoming_buffer, received_messages, all_bytes, framed_log,
                           ui_hung, chan_writer, patternVars, send_hex_input,
                           ruleVars, displayVars>>]_vars
    /\ [][Connect => UNCHANGED <<incoming_buffer, received_messages>>]_vars
    /\ [](CutFrom(all_bytes, framed_log, incoming_buffer))

\* the operator has disconnected and the accumulator still holds the bytes of
\* an incomplete frame, after a complete one went to the history
C29_Witness ==
    /\ ~is_connected
    /\ reader_thread # "none"
    /\ incoming_buffer = <<170, 85, 1>>
    /\ received_messages = <<<<170, 85, 1, 13, 10>>>>

\* C30: after Disconnect has dropped the two channel endpoints of the UI, the
\* writer thread terminates and the reader thread terminates, whatever the
\* peer does from then on.
C30_ThreadsTerminate ==
    (~is_connected /\ reader_thread # "none")
        ~> (reader_thread = "finished" /\ writer_thread = "finished")

=============================================================================
